---- MODULE Spec2Model ----
(***************************************************************************)
(* A model of the duplicate finder src/versions/duplicates.v2.2.py.        *)
(*                                                                         *)
(* Text is modelled as sequences of character codes (code points), so that *)
(* strip, split, join, slicing, string comparison and sorting are computed *)
(* as Python computes them.  A file is the sequence of its lines (without  *)
(* the line terminator); the first line is the header.                     *)
(***************************************************************************)
EXTENDS Integers, Sequences, FiniteSets, TLC

(***************************************************************************)
(* Characters                                                              *)
(***************************************************************************)
\* DISK_MODE_DELIMITER = "\t"
DISK_MODE_DELIMITER == 9
\* the line terminator "\n" of the run files and of the report
LF == 10
\* " ", which replaces DISK_MODE_DELIMITER in a DISK prefix
SPACE == 32
\* the default --hash-delimiter ';'
SEMICOLON == 59

\* str.isspace for the characters of the model
IsSpace(c) == c \in {DISK_MODE_DELIMITER, LF, SPACE}

(***************************************************************************)
(* Python string and list primitives                                       *)
(***************************************************************************)
RECURSIVE LStrip(_)
LStrip(s) == IF s # <<>> /\ IsSpace(Head(s)) THEN LStrip(Tail(s)) ELSE s

RECURSIVE RStrip(_)
RStrip(s) ==
    IF s # <<>> /\ IsSpace(s[Len(s)]) THEN RStrip(SubSeq(s, 1, Len(s) - 1)) ELSE s

\* str.strip()
Strip(s) == RStrip(LStrip(s))

\* s[:n] for n >= 0
Take(s, n) == SubSeq(s, 1, IF n < Len(s) THEN n ELSE Len(s))

\* s[n:] for n >= 0
Drop(s, n) == SubSeq(s, n + 1, Len(s))

\* the index of the first d in s, 0 when there is none
RECURSIVE FindChar(_, _, _)
FindChar(s, d, i) ==
    IF i > Len(s) THEN 0 ELSE IF s[i] = d THEN i ELSE FindChar(s, d, i + 1)

\* s.split(d, maxsplit) for a one-character d and maxsplit >= 0
RECURSIVE Split(_, _, _)
Split(s, d, maxsplit) ==
    LET i == FindChar(s, d, 1) IN
    IF maxsplit = 0 \/ i = 0 THEN <<s>>
    ELSE <<SubSeq(s, 1, i - 1)>> \o Split(Drop(s, i), d, maxsplit - 1)

\* d.join(parts)
RECURSIVE Join(_, _)
Join(d, parts) ==
    IF parts = <<>> THEN <<>>
    ELSE IF Len(parts) = 1 THEN parts[1]
    ELSE parts[1] \o <<d>> \o Join(d, Tail(parts))

\* s.replace(x, y) for one-character x and y
Replace(s, x, y) == [i \in 1..Len(s) |-> IF s[i] = x THEN y ELSE s[i]]

\* s < t for strings: lexicographic by code point, a proper prefix first
RECURSIVE StrLess(_, _)
StrLess(s, t) ==
    IF t = <<>> THEN FALSE
    ELSE IF s = <<>> THEN TRUE
    ELSE IF Head(s) # Head(t) THEN Head(s) < Head(t)
    ELSE StrLess(Tail(s), Tail(t))

\* the elements of seq that satisfy Test, in order
SelectIdx(seq, Test(_)) ==
    LET F[i \in 0..Len(seq)] ==
            IF i = 0 THEN <<>>
            ELSE IF Test(i) THEN Append(F[i - 1], seq[i]) ELSE F[i - 1]
    IN F[Len(seq)]

\* sorted(S) for a set of strings
RECURSIVE SortedStrs(_)
SortedStrs(S) ==
    IF S = {} THEN <<>>
    ELSE LET m == CHOOSE x \in S : \A y \in S : x = y \/ StrLess(x, y)
         IN <<m>> \o SortedStrs(S \ {m})

\* sorted(S) for a set of integers
RECURSIVE SortedInts(_)
SortedInts(S) ==
    IF S = {} THEN <<>>
    ELSE LET m == CHOOSE x \in S : \A y \in S : x <= y
         IN <<m>> \o SortedInts(S \ {m})

Range(seq) == {seq[i] : i \in 1..Len(seq)}

(***************************************************************************)
(* Normalizer and hasher                                                   *)
(***************************************************************************)
\* A faulty normalizer that splits without a limit and keeps what follows
\* the first count fields as well.  The contract of the key must reject it.
normalize_line_unlimited(line, delimiter, count) ==
    Join(delimiter, Split(Strip(line), delimiter, Len(line)))

\* normalize_line(line, delimiter, count)
normalize_line(line, delimiter, count) ==
    Join(delimiter, Take(Split(Strip(line), delimiter, count), count))

\* the number of fields the earlier script hashes: line.split(";")[:6]
HASH_FIELDS_FIXED == 6

\* normalize_line(line) of find_duplicate_lines_aistudio.py:
\* ";".join(line.split(";")[:6]); its callers pass line.strip()
normalize_line_fixed(line) ==
    Join(SEMICOLON, Take(Split(line, SEMICOLON, Len(line)), HASH_FIELDS_FIXED))

\* The digest is modelled by a small multiplicative hash with the seed of
\* the source, rendered as a fixed-width lowercase hex string; the properties
\* that assume a collision-free hash state that assumption on the corpus.
HASH_SEED == 2024
HashModulus == 16 * 16

RECURSIVE HashFold(_, _)
HashFold(h, data) ==
    IF data = <<>> THEN h
    ELSE HashFold((h * 31 + Head(data)) % HashModulus, Tail(data))

HexDigit(d) == IF d < 10 THEN 48 + d ELSE 87 + d

\* HASH_FUNCTION(data): xxh64(data, seed=2024).hexdigest()
HASH_FUNCTION(data) ==
    LET n == HashFold(HASH_SEED % HashModulus, data)
    IN <<HexDigit(n \div 16), HexDigit(n % 16)>>

\* hash_normalized_line(line_part)
hash_normalized_line(line_part) == HASH_FUNCTION(line_part)

(***************************************************************************)
(* File scanner and workers.  A worker is a function of the file's content *)
(* (the sequence of its lines) and of the configuration.                   *)
(***************************************************************************)
\* next(f, None) followed by "for line in f": the lines after the header
AfterHeader(content) == IF content = <<>> THEN <<>> ELSE Tail(content)

\* the stripped, non-empty data lines of a file, in file order
ScanLines(content) ==
    LET body == AfterHeader(content)
        stripped == [i \in 1..Len(body) |-> Strip(body[i])]
    IN SelectIdx(stripped, LAMBDA i : stripped[i] # <<>>)

\* hash_normalized_line(normalize_line(stripped_line, ...))
LineHash(stripped_line, cfg) ==
    hash_normalized_line(
        normalize_line(stripped_line, cfg.hash_delimiter, cfg.hash_fields))

\* stripped_line[:config['write_length']]
LinePrefix(stripped_line, cfg) == Take(stripped_line, cfg.write_length)

\* the position of the entry of hash h in a list of records with field h
RECURSIVE IndexOfHash(_, _, _)
IndexOfHash(entries, h, i) ==
    IF i > Len(entries) THEN 0
    ELSE IF entries[i].h = h THEN i ELSE IndexOfHash(entries, h, i + 1)

\* process_file_fast: hash -> (prefix, count), in insertion order
process_file_fast(content, cfg) ==
    LET ls == ScanLines(content)
        F[i \in 0..Len(ls)] ==
            IF i = 0 THEN <<>>
            ELSE LET h == LineHash(ls[i], cfg)
                     j == IndexOfHash(F[i - 1], h, 1)
                 IN IF j = 0
                    THEN Append(F[i - 1],
                                [h |-> h, prefix |-> LinePrefix(ls[i], cfg), count |-> 1])
                    ELSE [F[i - 1] EXCEPT ![j].count = @ + 1]
    IN F[Len(ls)]

\* process_file_safe_pass1: Counter of the hashes of a file
process_file_safe_pass1(content, cfg) ==
    LET ls == ScanLines(content)
        hs == {LineHash(ls[i], cfg) : i \in 1..Len(ls)}
    IN [h \in hs |-> Cardinality({i \in 1..Len(ls) : LineHash(ls[i], cfg) = h})]

\* process_file_safe_pass2: hash -> prefix of the first line with the hash,
\* for the hashes of duplicate_hashes, in insertion order
process_file_safe_pass2(content, duplicate_hashes, cfg) ==
    LET ls == ScanLines(content)
        F[i \in 0..Len(ls)] ==
            IF i = 0 THEN <<>>
            ELSE LET h == LineHash(ls[i], cfg)
                 IN IF h \in duplicate_hashes /\ IndexOfHash(F[i - 1], h, 1) = 0
                    THEN Append(F[i - 1], [h |-> h, prefix |-> LinePrefix(ls[i], cfg)])
                    ELSE F[i - 1]
    IN IF duplicate_hashes = {} THEN <<>> ELSE F[Len(ls)]

(***************************************************************************)
(* DISK engine: sorted runs, k-way merge, group-by                         *)
(***************************************************************************)
\* str(n) for n >= 0
RECURSIVE IntStr(_)
IntStr(n) == IF n < 10 THEN <<48 + n>> ELSE IntStr(n \div 10) \o <<48 + (n % 10)>>

IsDigit(c) == c \in 48..57

\* int(s) for a string of decimal digits; -1 stands for ValueError
RECURSIVE DigitsValue(_, _)
DigitsValue(s, acc) ==
    IF s = <<>> THEN acc ELSE DigitsValue(Tail(s), acc * 10 + (Head(s) - 48))

ParseInt(s) ==
    IF s # <<>> /\ \A i \in 1..Len(s) : IsDigit(s[i]) THEN DigitsValue(s, 0) ELSE -1

\* f_in.readlines(hint): the number of lines returned, reading lines until
\* their total length (terminators included) exceeds hint
RECURSIVE ReadLinesCount(_, _, _, _)
ReadLinesCount(body, hint, k, total) ==
    IF k >= Len(body) THEN k
    ELSE IF k > 0 /\ hint > 0 /\ total > hint THEN k
    ELSE ReadLinesCount(body, hint, k + 1, total + Len(body[k + 1]) + 1)

\* the successive results of f_in.readlines(chunk_size_bytes) until it is empty
RECURSIVE ReadChunks(_, _)
ReadChunks(body, hint) ==
    IF body = <<>> THEN <<>>
    ELSE LET k == ReadLinesCount(body, hint, 0, 0)
         IN <<SubSeq(body, 1, k)>> \o ReadChunks(Drop(body, k), hint)

\* the (h, file_id, prefix) records of one chunk, before sorting
ChunkRecords(lines, file_id, cfg) ==
    LET stripped == [i \in 1..Len(lines) |-> Strip(lines[i])]
        Kept(i) ==
            /\ stripped[i] # <<>>
            /\ normalize_line(stripped[i], cfg.hash_delimiter, cfg.hash_fields) # <<>>
        recs == [i \in 1..Len(lines) |->
                    [h |-> LineHash(stripped[i], cfg),
                     fid |-> file_id,
                     prefix |-> Replace(LinePrefix(stripped[i], cfg),
                                        DISK_MODE_DELIMITER, SPACE)]]
    IN SelectIdx(recs, Kept)

\* A faulty worker that writes the records of a chunk in the order of the
\* input lines.  The order of the final merged run must reject it.
SortByHashOmitted(recs) == recs

\* processed_lines.sort(key=lambda x: x[0]): a stable sort by hash
SortByHash(recs) ==
    LET Insert(sorted, r) ==
            LET after == {i \in 1..Len(sorted) : ~StrLess(r.h, sorted[i].h)}
                k == IF after = {} THEN 0
                     ELSE CHOOSE i \in after : \A j \in after : j <= i
            IN SubSeq(sorted, 1, k) \o <<r>> \o Drop(sorted, k)
        F[i \in 0..Len(recs)] ==
            IF i = 0 THEN <<>> ELSE Insert(F[i - 1], recs[i])
    IN F[Len(recs)]

\* f"{h}{DISK_MODE_DELIMITER}{fid}{DISK_MODE_DELIMITER}{pref}\n", without
\* the terminator
FormatRecord(r) ==
    r.h \o <<DISK_MODE_DELIMITER>> \o IntStr(r.fid) \o <<DISK_MODE_DELIMITER>> \o r.prefix

\* temp_dir / f"hashes_{file_id}_chunk_{chunk_idx}.tmp"
ChunkPath(file_id, chunk_idx) == <<"hashes", file_id, chunk_idx>>

\* A faulty output path that leaves out the merge level.  The distinctness
\* of the temp paths must reject it.
MergedPathOfBatch(level, i) == <<"merged", 1, i>>

\* TEMP_DIR / f"merged_{merge_level}_{i}.tmp"
MergedPath(level, i) == <<"merged", level, i>>

\* the characters '_' and '.'
UNDERSCORE == 95
DOT == 46
\* the text of a temp path inside TEMP_DIR, as the f-strings build it:
\* "hashes_{file_id}_chunk_{chunk_idx}.tmp", "merged_{merge_level}_{i}.tmp"
PathName(path) ==
    LET stem == IF path[1] = "hashes" THEN <<104, 97, 115, 104, 101, 115>>
                ELSE <<109, 101, 114, 103, 101, 100>>
        mid == IF path[1] = "hashes" THEN <<UNDERSCORE, 99, 104, 117, 110, 107, UNDERSCORE>>
               ELSE <<UNDERSCORE>>
    IN stem \o <<UNDERSCORE>> \o IntStr(path[2]) \o mid \o IntStr(path[3])
            \o <<DOT, 116, 109, 112>>

\* process_and_sort_chunk_disk: the run files a worker writes, in order
process_and_sort_chunk_disk(content, file_id, cfg, chunk_size_bytes) ==
    LET chunks == ReadChunks(AfterHeader(content), chunk_size_bytes)
    IN [c \in 1..Len(chunks) |->
           LET sorted == SortByHash(ChunkRecords(chunks[c], file_id, cfg))
           IN [path |-> ChunkPath(file_id, c - 1),
               lines |-> [i \in 1..Len(sorted) |-> FormatRecord(sorted[i])]]]

\* the comparison heapq.merge makes between two lines read from run files
LineLess(a, b) == StrLess(a \o <<LF>>, b \o <<LF>>)

\* heapq.merge(*open_files_list): repeatedly the least head, the earliest
\* stream first among equal heads
RECURSIVE HeapqMerge(_)
HeapqMerge(streams) ==
    LET live == {i \in 1..Len(streams) : streams[i] # <<>>}
    IN IF live = {} THEN <<>>
       ELSE LET m == CHOOSE i \in live :
                        \A j \in live :
                            \/ LineLess(Head(streams[i]), Head(streams[j]))
                            \/ (~LineLess(Head(streams[j]), Head(streams[i])) /\ i <= j)
            IN <<Head(streams[m])>> \o HeapqMerge([streams EXCEPT ![m] = Tail(@)])

\* the key of itertools.groupby: line.split(DISK_MODE_DELIMITER, 1)[0]
GroupKey(line) == Split(line \o <<LF>>, DISK_MODE_DELIMITER, 1)[1]

\* itertools.groupby: the maximal runs of adjacent lines with equal keys
RECURSIVE GroupBy(_)
GroupBy(lines) ==
    IF lines = <<>> THEN <<>>
    ELSE LET k == GroupKey(lines[1])
             differ == {i \in 1..Len(lines) : GroupKey(lines[i]) # k}
             n == IF differ = {} THEN Len(lines)
                  ELSE (CHOOSE i \in differ : \A j \in differ : i <= j) - 1
         IN <<SubSeq(lines, 1, n)>> \o GroupBy(Drop(lines, n))

\* one item of a group: item.strip().split(DISK_MODE_DELIMITER, 2) unpacked
\* into three names and int(fid_str); ok is FALSE on ValueError
ParseRecord(item) ==
    LET parts == Split(Strip(item \o <<LF>>), DISK_MODE_DELIMITER, 2)
    IN IF Len(parts) = 3 /\ ParseInt(parts[2]) >= 0
       THEN [ok |-> TRUE, fid |-> ParseInt(parts[2]), prefix |-> parts[3]]
       ELSE [ok |-> FALSE, fid |-> 0, prefix |-> <<>>]

\* the loop over group_items: the file ids collected and the prefix adopted
GroupResult(group_items) ==
    LET F[i \in 0..Len(group_items)] ==
            IF i = 0 THEN [file_ids |-> {}, prefix |-> <<>>]
            ELSE LET r == ParseRecord(group_items[i])
                     acc == F[i - 1]
                 IN IF ~r.ok THEN acc
                    ELSE [file_ids |-> acc.file_ids \cup {r.fid},
                          prefix |-> IF acc.prefix = <<>> THEN r.prefix ELSE acc.prefix]
    IN F[Len(group_items)]

(***************************************************************************)
(* Driver-side aggregation of the three engines                            *)
(***************************************************************************)
\* a dict without the key k; of a directory, path.unlink()
Remove(d, k) == [q \in (DOMAIN d) \ {k} |-> d[q]]

\* dict[k] = v on a dict modelled as a function
Put(d, k, v) == [x \in (DOMAIN d) \cup {k} |-> IF x = k THEN v ELSE d[x]]

\* an empty dict
EmptyDict == [x \in {} |-> 0]

RECURSIVE SumOver(_, _)
SumOver(f, S) ==
    IF S = {} THEN 0
    ELSE LET x == CHOOSE y \in S : TRUE IN f[x] + SumOver(f, S \ {x})

\* sum(file_counts.values())
TotalCount(file_counts) == SumOver(file_counts, DOMAIN file_counts)

\* [id_to_file_map[fid] for fid in sorted(list(file_ids))]
NamesOf(file_ids, fileList) ==
    LET ids == SortedInts(file_ids) IN [i \in 1..Len(ids) |-> fileList[ids[i] + 1]]

\* run_strategy_fast, the body of the as_completed loop for one future:
\* global_hashes is a list of (h, prefix, counts) in insertion order
FastMerge(g, file_id, partial_results) ==
    LET F[i \in 0..Len(partial_results)] ==
            IF i = 0 THEN g
            ELSE LET item == partial_results[i]
                     j0 == IndexOfHash(F[i - 1], item.h, 1)
                     \* global_hashes[h] inserts the default ("", Counter())
                     g1 == IF j0 = 0
                           THEN Append(F[i - 1],
                                       [h |-> item.h, prefix |-> <<>>, counts |-> EmptyDict])
                           ELSE F[i - 1]
                     j == IF j0 = 0 THEN Len(g1) ELSE j0
                     g2 == IF g1[j].prefix = <<>>
                           THEN [g1 EXCEPT ![j].prefix = item.prefix]
                           ELSE g1
                 IN [g2 EXCEPT ![j].counts = Put(@, file_id, item.count)]
    IN F[Len(partial_results)]

\* run_strategy_fast, from "output_data = {}" to output_data.update(...)
FastOutput(g, fileList) ==
    LET F[i \in 0..Len(g)] ==
            IF i = 0 THEN [output_data |-> EmptyDict, intra_file_duplicates |-> EmptyDict]
            ELSE LET e == g[i]
                     acc == F[i - 1]
                 IN IF Cardinality(DOMAIN e.counts) > 1
                    THEN [acc EXCEPT !.output_data =
                              Put(@, e.prefix, NamesOf(DOMAIN e.counts, fileList))]
                    ELSE IF TotalCount(e.counts) > 1
                    THEN [acc EXCEPT !.intra_file_duplicates =
                              Put(@, e.prefix, NamesOf(DOMAIN e.counts, fileList))]
                    ELSE acc
        r == F[Len(g)]
    IN [p \in (DOMAIN r.output_data) \cup (DOMAIN r.intra_file_duplicates) |->
           IF p \in DOMAIN r.intra_file_duplicates
           THEN r.intra_file_duplicates[p] ELSE r.output_data[p]]

\* run_strategy_fast as a whole: its output_data when the futures complete
\* in the given order of file ids
run_strategy_fast(order, fileList, dir, cfg) ==
    LET G[i \in 0..Len(order)] ==
            IF i = 0 THEN <<>>
            ELSE FastMerge(G[i - 1], order[i],
                           process_file_fast(dir[fileList[order[i] + 1]], cfg))
    IN FastOutput(G[Len(order)], fileList)

\* run_strategy_safe, pass 1: hash_to_file_counts[h][file_id] = count
SafeMerge1(htfc, file_id, hashes_with_counts) ==
    [h \in (DOMAIN htfc) \cup (DOMAIN hashes_with_counts) |->
        IF h \in DOMAIN hashes_with_counts
        THEN Put(IF h \in DOMAIN htfc THEN htfc[h] ELSE EmptyDict,
                 file_id, hashes_with_counts[h])
        ELSE htfc[h]]

\* run_strategy_safe: the hashes that occur in several files or several times
DuplicateHashes(htfc) ==
    {h \in DOMAIN htfc :
        Cardinality(DOMAIN htfc[h]) > 1 \/ TotalCount(htfc[h]) > 1}

\* hash_to_prefix_map.update(future.result()): a list of (h, prefix) in
\* insertion order, the last writer's prefix
SafeMerge2(htpm, results) ==
    LET F[i \in 0..Len(results)] ==
            IF i = 0 THEN htpm
            ELSE LET j == IndexOfHash(F[i - 1], results[i].h, 1)
                 IN IF j = 0 THEN Append(F[i - 1], results[i])
                    ELSE [F[i - 1] EXCEPT ![j].prefix = results[i].prefix]
    IN F[Len(results)]

\* run_strategy_safe, the loop that builds output_data
SafeOutput(htpm, dup_hashes, htfc, fileList) ==
    LET F[i \in 0..Len(htpm)] ==
            IF i = 0 THEN EmptyDict
            ELSE LET h == htpm[i].h IN
                 IF h \in dup_hashes
                    /\ (Cardinality(DOMAIN htfc[h]) > 1 \/ TotalCount(htfc[h]) > 1)
                 THEN Put(F[i - 1], htpm[i].prefix, NamesOf(DOMAIN htfc[h], fileList))
                 ELSE F[i - 1]
    IN F[Len(htpm)]

\* run_strategy_disk, phase 3: output_data from the final merged file
DiskOutput(lines, fileList) ==
    LET groups == GroupBy(lines)
        F[i \in 0..Len(groups)] ==
            IF i = 0 THEN EmptyDict
            ELSE LET r == GroupResult(groups[i])
                 IN IF Len(groups[i]) > 1 /\ r.prefix # <<>>
                    THEN Put(F[i - 1], r.prefix, NamesOf(r.file_ids, fileList))
                    ELSE F[i - 1]
    IN F[Len(groups)]

(***************************************************************************)
(* Report writer                                                           *)
(***************************************************************************)
\* "Nem található duplikátum.", abbreviated to "Nem"
NoDuplicatesLine == <<78, 101, 109>>
\* "    - "
ItemIndent == <<SPACE, SPACE, SPACE, SPACE, 45, SPACE>>
\* "(Fájlon belüli duplikátumok) ", abbreviated to "(F) "
IntraMarker == <<40, 70, 41, SPACE>>

\* A faulty writer that lists the basenames of an entry in the order in
\* which the engine produced them.  The ordering rule must reject it.
write_duplicates_unsorted(duplicates_data) ==
    IF DOMAIN duplicates_data = {} THEN <<NoDuplicatesLine>>
    ELSE LET sorted_prefixes == SortedStrs(DOMAIN duplicates_data)
             Entry(prefix) ==
                 LET names == duplicates_data[prefix] IN
                 IF Len(names) = 1
                 THEN <<prefix, ItemIndent \o IntraMarker \o names[1]>>
                 ELSE <<prefix>> \o [i \in 1..Len(names) |-> ItemIndent \o names[i]]
             F[i \in 0..Len(sorted_prefixes)] ==
                 IF i = 0 THEN <<>> ELSE F[i - 1] \o Entry(sorted_prefixes[i])
         IN F[Len(sorted_prefixes)]

\* write_duplicates: the lines written to duplicates.txt
write_duplicates(duplicates_data) ==
    IF DOMAIN duplicates_data = {} THEN <<NoDuplicatesLine>>
    ELSE LET sorted_prefixes == SortedStrs(DOMAIN duplicates_data)
             Entry(prefix) ==
                 LET names == duplicates_data[prefix] IN
                 IF Len(names) = 1
                 THEN <<prefix, ItemIndent \o IntraMarker \o names[1]>>
                 ELSE LET sn == SortedStrs(Range(names))
                      IN <<prefix>> \o [i \in 1..Len(sn) |-> ItemIndent \o sn[i]]
             F[i \in 0..Len(sorted_prefixes)] ==
                 IF i = 0 THEN <<>> ELSE F[i - 1] \o Entry(sorted_prefixes[i])
         IN F[Len(sorted_prefixes)]

(***************************************************************************)
(* Deletion pipeline                                                       *)
(***************************************************************************)
\* collect_duplicate_lines_for_deletion, first loop: hash_to_files, the
\* basenames of the files holding a line of hash h whose prefix is a key of
\* more than one file in duplicates_data
HashToFiles(fileList, dir, duplicates_data, cfg) ==
    LET inter == {p \in DOMAIN duplicates_data : Len(duplicates_data[p]) > 1}
        Hit(name, h) ==
            \E l \in Range(ScanLines(dir[name])) :
                LinePrefix(l, cfg) \in inter /\ LineHash(l, cfg) = h
        hs == UNION {{LineHash(l, cfg) : l \in Range(ScanLines(dir[name]))} :
                       name \in Range(fileList)}
    IN [h \in {x \in hs : \E name \in Range(fileList) : Hit(name, x)} |->
           {name \in Range(fileList) : Hit(name, h)}]

\* collect_duplicate_lines_for_deletion: lines_to_delete, a list of
\* (h, file_lines_map) in insertion order; file_lines_map maps a basename
\* to the stripped lines of hash h in that file
collect_duplicate_lines_for_deletion(fileList, dir, duplicates_data, cfg) ==
    LET htf == HashToFiles(fileList, dir, duplicates_data, cfg)
        multi_file_duplicates == {h \in DOMAIN htf : Cardinality(htf[h]) > 1}
        \* every (file, line) visited by the second loop, in order
        visits == LET F[i \in 0..Len(fileList)] ==
                          IF i = 0 THEN <<>>
                          ELSE LET ls == ScanLines(dir[fileList[i]])
                               IN F[i - 1] \o
                                  [k \in 1..Len(ls) |-> [name |-> fileList[i], line |-> ls[k]]]
                  IN F[Len(fileList)]
        G[i \in 0..Len(visits)] ==
            IF i = 0 THEN <<>>
            ELSE LET v == visits[i]
                     h == LineHash(v.line, cfg)
                     j == IndexOfHash(G[i - 1], h, 1)
                 IN IF h \notin multi_file_duplicates THEN G[i - 1]
                    ELSE IF j = 0
                    THEN Append(G[i - 1],
                                [h |-> h, file_lines_map |-> Put(EmptyDict, v.name, <<v.line>>)])
                    ELSE [G[i - 1] EXCEPT ![j].file_lines_map =
                              Put(@, v.name,
                                  IF v.name \in DOMAIN @
                                  THEN Append(@[v.name], v.line) ELSE <<v.line>>)]
    IN IF \A p \in DOMAIN duplicates_data : Len(duplicates_data[p]) <= 1
       THEN <<>> ELSE G[Len(visits)]

\* delete_duplicate_rows, stage 1: which file keeps the lines of a hash
KeepFile(file_lines_map) == SortedStrs(DOMAIN file_lines_map)[1]

\* A faulty stage 1 that keeps no file: every file holding the hash is
\* rewritten.  Conservation must reject it.
StageATasksNoKeep(lines_to_delete) ==
    LET F[i \in 0..Len(lines_to_delete)] ==
            IF i = 0 THEN <<>>
            ELSE LET m == lines_to_delete[i].file_lines_map
                     delete_files == SortedStrs(DOMAIN m)
                 IN F[i - 1] \o
                    [k \in 1..Len(delete_files) |->
                        [file |-> delete_files[k],
                         lines_to_remove |-> m[delete_files[k]]]]
    IN F[Len(lines_to_delete)]

\* delete_duplicate_rows, stage 1: the calls of delete_rows_from_file, in order
StageATasks(lines_to_delete) ==
    LET F[i \in 0..Len(lines_to_delete)] ==
            IF i = 0 THEN <<>>
            ELSE LET m == lines_to_delete[i].file_lines_map
                     keep_file == KeepFile(m)
                     delete_files == SortedStrs((DOMAIN m) \ {keep_file})
                 IN F[i - 1] \o
                    [k \in 1..Len(delete_files) |->
                        [file |-> delete_files[k],
                         lines_to_remove |-> m[delete_files[k]]]]
    IN F[Len(lines_to_delete)]

\* A faulty rewrite that writes back the stripped form of the lines it
\* keeps.  Preservation must reject it.
delete_rows_from_file_stripped(content, lines_to_remove) ==
    IF content = <<>> THEN <<>>
    ELSE LET body == Tail(content)
             kept == SelectIdx(body, LAMBDA i : Strip(body[i]) \notin Range(lines_to_remove))
         IN <<Head(content)>> \o [i \in 1..Len(kept) |-> Strip(kept[i])]

\* delete_rows_from_file: the content written over the file
delete_rows_from_file(content, lines_to_remove) ==
    IF content = <<>> THEN <<>>
    ELSE LET body == Tail(content)
         IN <<Head(content)>> \o
            SelectIdx(body, LAMBDA i : Strip(body[i]) \notin Range(lines_to_remove))

\* A faulty scan that records the hash of the header as seen, and so drops
\* a data line that repeats the header.  The first-occurrence rule of stage 2
\* must reject it.
IntraFileScanSeesHeader(content, cfg) ==
    LET FirstOfHash(i) ==
            \/ i = 1
            \/ Strip(content[i]) = <<>>
            \/ ~\E j \in 1..(i - 1) :
                   /\ Strip(content[j]) # <<>>
                   /\ LineHash(Strip(content[j]), cfg) = LineHash(Strip(content[i]), cfg)
        kept == SelectIdx(content, FirstOfHash)
    IN [lines_to_keep |-> kept, deleted_count |-> Len(content) - Len(kept)]

\* find_and_delete_intrafile_duplicates: lines_to_keep and deleted_count
IntraFileScan(content, cfg) ==
    LET body == AfterHeader(content)
        FirstOfHash(i) ==
            \/ Strip(body[i]) = <<>>
            \/ ~\E j \in 1..(i - 1) :
                   /\ Strip(body[j]) # <<>>
                   /\ LineHash(Strip(body[j]), cfg) = LineHash(Strip(body[i]), cfg)
        kept == SelectIdx(body, FirstOfHash)
    IN [lines_to_keep |-> IF content = <<>> THEN <<>> ELSE <<Head(content)>> \o kept,
        deleted_count |-> Len(body) - Len(kept)]

\* find_and_delete_intrafile_duplicates: the content of the file afterwards
find_and_delete_intrafile_duplicates(content, cfg) ==
    LET r == IntraFileScan(content, cfg)
    IN IF r.deleted_count > 0 THEN r.lines_to_keep ELSE content

\* f"{filename} -> Törölve {n} sor", abbreviated to f"{filename} -> {n}"
Annotated(filename, n) == filename \o <<SPACE, 45, 62, SPACE>> \o IntStr(n)

\* listed_file.split(' ->')[0]
RECURSIVE CleanName(_)
CleanName(listed_file) ==
    IF Len(listed_file) < 3 THEN listed_file
    ELSE IF SubSeq(listed_file, 1, 3) = <<SPACE, 45, 62>> THEN <<>>
    ELSE <<Head(listed_file)>> \o CleanName(Tail(listed_file))

CountOf(counts, name) == IF name \in DOMAIN counts THEN counts[name] ELSE 0

\* delete_duplicate_rows, steps 3 and 4: modified_duplicates_data
\* dummy_prefix: "(Csak fájlon belüli duplikátumok - {filename})",
\* abbreviated to "(C {filename})"
dummy_prefix(filename) == <<40, 67, SPACE>> \o filename \o <<41>>

ModifiedDuplicatesData(duplicates_data, inter_counts, intra_counts) ==
    LET step3 ==
            [p \in DOMAIN duplicates_data |->
                LET file_list == duplicates_data[p] IN
                IF Len(file_list) > 1
                THEN [i \in 1..Len(file_list) |->
                         IF CountOf(inter_counts, file_list[i]) > 0
                         THEN Annotated(file_list[i], inter_counts[file_list[i]])
                         ELSE file_list[i]]
                ELSE IF CountOf(intra_counts, file_list[1]) > 0
                THEN <<Annotated(file_list[1], intra_counts[file_list[1]])>>
                ELSE file_list]
        already_listed(filename) ==
            \E p \in DOMAIN step3 : \E i \in 1..Len(step3[p]) :
                CleanName(step3[p][i]) = filename
        added == {f \in DOMAIN intra_counts : intra_counts[f] > 0 /\ ~already_listed(f)}
    IN [p \in (DOMAIN step3) \cup {dummy_prefix(f) : f \in added} |->
           IF \E x \in added : dummy_prefix(x) = p
           THEN LET f == CHOOSE x \in added : dummy_prefix(x) = p
                IN <<Annotated(f, intra_counts[f])>>
           ELSE step3[p]]

(***************************************************************************)
(* Input enumeration and strategy selection                                *)
(***************************************************************************)
\* f.stat().st_size: every character is one byte, every line is terminated
RECURSIVE ContentSize(_)
ContentSize(content) ==
    IF content = <<>> THEN 0 ELSE Len(Head(content)) + 1 + ContentSize(Tail(content))

\* get_input_files: files.sort(key=lambda f: f.stat().st_size), a stable
\* sort of the order in which glob returned the files
get_input_files(globbed, dir) ==
    LET Insert(sorted, name) ==
            LET after == {i \in 1..Len(sorted) :
                            ContentSize(dir[sorted[i]]) <= ContentSize(dir[name])}
                k == IF after = {} THEN 0
                     ELSE CHOOSE i \in after : \A j \in after : j <= i
            IN SubSeq(sorted, 1, k) \o <<name>> \o Drop(sorted, k)
        F[i \in 0..Len(globbed)] ==
            IF i = 0 THEN <<>> ELSE Insert(F[i - 1], globbed[i])
    IN F[Len(globbed)]

\* the orders in which input_dir.glob(file_pattern) may return the files
GlobOrders(dir) ==
    {q \in [1..Cardinality(DOMAIN dir) -> DOMAIN dir] :
        \A i, j \in DOMAIN q : i # j => q[i] # q[j]}

\* FAST_MODE_MEMORY_FACTOR = 0.4, SAFE_MODE_MEMORY_FACTOR = 0.1 and
\* RAM_USAGE_THRESHOLD = 0.70, in tenths
FAST_MODE_MEMORY_FACTOR == 4
SAFE_MODE_MEMORY_FACTOR == 1
RAM_USAGE_THRESHOLD == 7

RECURSIVE TotalSize(_, _)
TotalSize(fileList, dir) ==
    IF fileList = <<>> THEN 0
    ELSE ContentSize(dir[Head(fileList)]) + TotalSize(Tail(fileList), dir)

\* A faulty selector that compares with <= where the source compares
\* with <.  The selection rule must reject it.
auto_select_strategy_inclusive(fileList, dir, available_ram_bytes) ==
    LET total_size_bytes == TotalSize(fileList, dir)
        ram_limit == available_ram_bytes * RAM_USAGE_THRESHOLD
    IN IF total_size_bytes * FAST_MODE_MEMORY_FACTOR <= ram_limit THEN "fast"
       ELSE IF total_size_bytes * SAFE_MODE_MEMORY_FACTOR <= ram_limit THEN "safe"
       ELSE "disk"

\* auto_select_strategy, the decision once psutil has reported
\* available_ram_bytes; both sides of each comparison are scaled by ten
auto_select_strategy(fileList, dir, available_ram_bytes) ==
    LET total_size_bytes == TotalSize(fileList, dir)
        ram_limit == available_ram_bytes * RAM_USAGE_THRESHOLD
        est_fast_mode_ram == total_size_bytes * FAST_MODE_MEMORY_FACTOR
        est_safe_mode_ram == total_size_bytes * SAFE_MODE_MEMORY_FACTOR
    IN IF est_fast_mode_ram < ram_limit THEN "fast"
       ELSE IF est_safe_mode_ram < ram_limit THEN "safe"
       ELSE "disk"

\* estimate_average_line_length as the fraction <<numerator, denominator>>:
\* total_length / line_count over the stripped non-empty data lines, and
\* 150.0 when there is none or when reading the file raises
estimate_average_line_length(content, raises) ==
    LET lengths == [i \in 1..Len(AfterHeader(content)) |->
                        Len(Strip(AfterHeader(content)[i]))]
        counted == {i \in DOMAIN lengths : lengths[i] > 0}
    IN IF raises \/ content = <<>> \/ counted = {} THEN <<150, 1>>
       ELSE <<SumOver(lengths, counted), Cardinality(counted)>>

\* How one call of auto_select_strategy can go: psutil reports
\* available_ram_bytes ("ok"), the same with a read error inside
\* estimate_average_line_length ("estimate_raises"), PSUTIL_AVAILABLE is
\* False ("unavailable"), psutil.virtual_memory() raises ("probe_raises"),
\* f.stat() raises ("stat_raises").
ProbeFailures == {"unavailable", "probe_raises", "stat_raises"}

\* A faulty selector that goes on to the DISK engine when the selection
\* cannot be made.  The fallback rule must reject it.
auto_select_strategy_try_disk(fileList, dir, outcome) ==
    IF outcome.kind \in ProbeFailures THEN "disk"
    ELSE auto_select_strategy(fileList, dir, outcome.available_ram_bytes)

\* auto_select_strategy with its guard "if not PSUTIL_AVAILABLE" and its
\* "except Exception": both return "safe".  The line-length estimate
\* catches its own exceptions, and its value only enters the logged
\* est_disk_space_bytes, so the decision is the one of the thresholds.
auto_select_strategy_try(fileList, dir, outcome) ==
    IF outcome.kind \in ProbeFailures THEN "safe"
    ELSE LET largest_file == CHOOSE f \in Range(fileList) :
                 \A g \in Range(fileList) : ContentSize(dir[g]) <= ContentSize(dir[f])
             avg_line_length == estimate_average_line_length(
                                    dir[largest_file], outcome.kind = "estimate_raises")
         IN IF avg_line_length[1] > 0
            THEN auto_select_strategy(fileList, dir, outcome.available_ram_bytes)
            ELSE "safe"

(***************************************************************************)
(* The program as a state machine: successive runs of main() on one input  *)
(* directory.                                                              *)
(***************************************************************************)
VARIABLES
    fs,                         \* the input directory: basename -> lines
    config,                     \* vars(args), fixed over the runs
    pc,                         \* where the current run of main() stands
    strategy,                   \* the engine main() dispatches to
    available_ram,              \* psutil's answer when --strategy auto, else -1
    files,                      \* get_input_files(): basenames in FileId order
    pending,                    \* the FileIds whose future has not completed
    global_hashes,              \* FAST
    hash_to_file_counts,        \* SAFE pass 1
    duplicate_hashes,           \* SAFE
    hash_to_prefix_map,         \* SAFE pass 2
    temp_dir,                   \* TEMP_DIR: [exists, entries: path -> lines]
    all_temp_files,             \* DISK
    temp_files_for_merge,       \* DISK phase 2
    merged_level_files,         \* DISK phase 2
    merge_level,                \* DISK phase 2
    merge_i,                    \* DISK phase 2: the i of the batch loop
    output_data,                \* the DuplicateEntries: prefix -> basenames
    stage_a_queue,              \* the pending calls of delete_rows_from_file
    stage_b_next,               \* index in files of the next stage-2 file
    inter_file_deleted_counts,
    intra_file_deleted_counts,
    report,                     \* duplicates.txt: its lines, <<>> when absent
    start,                      \* fs when the current run began
    rerun,                      \* TRUE when an earlier run has completed
    input_dir,                  \* input_dir.is_dir()
    probe,                      \* how auto_select_strategy went, "none" without it
    failed,                     \* the exceptions of the current run, as records
    open_files,                 \* DISK phase 2: open_files_list of merge_files
    backups                     \* the .backup files: basename -> lines

vars == <<fs, config, pc, strategy, available_ram, files, pending, global_hashes,
          hash_to_file_counts, duplicate_hashes, hash_to_prefix_map, temp_dir,
          all_temp_files, temp_files_for_merge, merged_level_files, merge_level,
          merge_i, output_data, stage_a_queue, stage_b_next,
          inter_file_deleted_counts, intra_file_deleted_counts, report, start, rerun,
          input_dir, probe, failed, open_files, backups>>

fastVars == <<global_hashes>>
safeVars == <<hash_to_file_counts, duplicate_hashes, hash_to_prefix_map>>
diskVars == <<temp_dir, all_temp_files, temp_files_for_merge, merged_level_files,
              merge_level, merge_i, open_files>>
deleteVars == <<stage_a_queue, stage_b_next, inter_file_deleted_counts,
                intra_file_deleted_counts>>
envVars == <<config, strategy, available_ram, files, start, rerun, input_dir, probe>>
runVars == <<envVars, failed>>

\* DISK_CHUNK_SIZE_MB * 1024 * 1024, scaled down to the size of the modelled files
chunk_size_bytes == 4

\* the most data lines in the input directory, over all its files
MaxLines == 4
\* the same, for the directories of the runs that delete
MaxDeleteLines == 3
\* the largest amount of available RAM psutil reports, in bytes
MaxRam == 6
\* the same, for the runs with a missing directory or failing rewrites
MaxMainLines == 3
\* the same, for the runs with failing workers
MaxWorkerLines == 3
\* the same, for the DISK runs with failures
MaxDiskLines == 3
\* the same, for the runs over keys of one prefix
MaxCollideLines == 5
\* the same, for the runs whose report is examined
MaxReportLines == 4
\* the same, for the runs followed from the automatic selection to their end
MaxProbeLines == 2
\* the most levels of the cascading merge that are followed
MaxMergeLevel == 3
\* the most data lines in the input directory, for the DISK runs over chunks
\* of several records
MaxRunLines == 4
\* the same, for the runs whose data lines may repeat the header
MaxIntraLines == 3
\* the largest FileId, chunk index, merge level and batch index whose path
\* texts are compared
MaxPathNumber == 12
\* the same, for the runs with or without deletion whose workers may fail
MaxFrameLines == 2
\* the same, for the DISK runs over prefixes of several shapes
MaxRecordLines == 3
\* the same, for the FAST runs whose rewrites may fail at each step
MaxRewriteLines == 3
\* the same, for the runs over lines of several fields
MaxKeyLines == 2
\* the largest --hash-fields of those runs
MaxFields == 3

NoTempDir == [exists |-> FALSE, entries |-> EmptyDict]

\* the state of the driver when a run of main() begins
EngineReset ==
    /\ global_hashes' = <<>>
    /\ hash_to_file_counts' = EmptyDict
    /\ duplicate_hashes' = {}
    /\ hash_to_prefix_map' = <<>>
    /\ all_temp_files' = <<>>
    /\ temp_files_for_merge' = <<>>
    /\ merged_level_files' = <<>>
    /\ merge_level' = 0
    /\ merge_i' = 0
    /\ open_files' = <<>>
    /\ failed' = {}
    /\ output_data' = EmptyDict
    /\ stage_a_queue' = <<>>
    /\ stage_b_next' = 0
    /\ inter_file_deleted_counts' = EmptyDict
    /\ intra_file_deleted_counts' = EmptyDict

\* main(), from get_input_files to the dispatch strategy_map[strategy](...);
\* run_strategy_disk starts by emptying and creating TEMP_DIR
Begin(globbed, strat, ram) ==
    /\ globbed # <<>>
    /\ files' = get_input_files(globbed, fs)
    /\ strategy' = strat
    /\ available_ram' = ram
    /\ pending' = 0..(Len(globbed) - 1)
    /\ pc' = CASE strat = "fast" -> "fast"
               [] strat = "safe" -> "safe1"
               [] OTHER -> "disk1"
    /\ temp_dir' = IF strat = "disk" THEN [exists |-> TRUE, entries |-> EmptyDict]
                   ELSE temp_dir
    /\ start' = fs
    /\ rerun' = (pc = "done")
    /\ EngineReset
    /\ UNCHANGED <<fs, backups, config, report, input_dir>>

\* main() with --strategy fast, safe or disk
Start ==
    /\ pc \in {"idle", "done"}
    /\ config.strategy # "auto"
    /\ input_dir
    /\ probe' = "none"
    /\ \E globbed \in GlobOrders(fs) : Begin(globbed, config.strategy, -1)

\* the ways auto_select_strategy can go in one run
ProbeOutcomes ==
    {[kind |-> k, available_ram_bytes |-> r] :
         k \in {"ok", "estimate_raises"}, r \in 0..MaxRam}
    \cup {[kind |-> k, available_ram_bytes |-> -1] : k \in ProbeFailures}

\* main() when get_input_files returns []: the input directory does not
\* exist (logged as an error) or holds no matching file (a warning);
\* "if not files: return"
StartNoFiles ==
    /\ pc \in {"idle", "done"}
    /\ ~input_dir \/ DOMAIN fs = {}
    /\ files' = <<>>
    /\ pc' = "done"
    /\ start' = fs
    /\ rerun' = (pc = "done")
    /\ probe' = "none"
    /\ strategy' = "none"
    /\ available_ram' = -1
    /\ pending' = {}
    /\ EngineReset
    /\ UNCHANGED <<fs, backups, config, report, input_dir, temp_dir>>

\* the exit status of the interpreter: 0 when main() has returned, 1 when
\* an uncaught exception has ended it, -1 while it runs; the program never
\* calls sys.exit
exit_status ==
    CASE pc = "done" -> 0
      [] pc = "crashed" -> 1
      [] OTHER -> -1

\* the first run of main() on the directory
FirstStart == pc = "idle" /\ Start

\* main() with --strategy auto
AutoStart ==
    /\ pc = "idle"
    /\ config.strategy = "auto"
    /\ input_dir
    /\ \E globbed \in GlobOrders(fs), outcome \in ProbeOutcomes :
           /\ probe' = outcome.kind
           /\ Begin(globbed,
                    auto_select_strategy_try(get_input_files(globbed, fs), fs, outcome),
                    outcome.available_ram_bytes)

\* A faulty delete_duplicate_rows that begins with stage 2 while rewrites of
\* stage 1 are still due.  The order of the steps must reject it.
EmitStageBFirst(out) ==
    /\ output_data' = out
    /\ IF config.deleteduplicates
       THEN /\ stage_a_queue' = StageATasks(
                    collect_duplicate_lines_for_deletion(files, fs, out, config))
            /\ pc' = "stage_b"
       ELSE /\ stage_a_queue' = <<>>
            /\ pc' = "write"
    /\ stage_b_next' = 1
    /\ UNCHANGED <<inter_file_deleted_counts, intra_file_deleted_counts>>

\* An end of run_strategy_* that begins the deletion whatever the flag
\* says.  The frame of a run without deletion must reject it.
EmitIgnoringFlag(out) ==
    /\ output_data' = out
    /\ stage_a_queue' = StageATasks(
            collect_duplicate_lines_for_deletion(files, fs, out, config))
    /\ pc' = IF stage_a_queue' # <<>> THEN "stage_a" ELSE "stage_b"
    /\ stage_b_next' = 1
    /\ UNCHANGED <<inter_file_deleted_counts, intra_file_deleted_counts>>

\* the end of every run_strategy_*: "if config.get('deleteduplicates')",
\* collect_duplicate_lines_for_deletion, then delete_duplicate_rows begins
Emit(out) ==
    /\ output_data' = out
    /\ IF config.deleteduplicates
       THEN /\ stage_a_queue' = StageATasks(
                    collect_duplicate_lines_for_deletion(files, fs, out, config))
            /\ pc' = IF stage_a_queue' # <<>> THEN "stage_a" ELSE "stage_b"
       ELSE /\ stage_a_queue' = <<>>
            /\ pc' = "write"
    /\ stage_b_next' = 1
    /\ UNCHANGED <<inter_file_deleted_counts, intra_file_deleted_counts>>

\* run_strategy_fast: one future completes and its result is merged
FastComplete ==
    /\ pc = "fast"
    /\ \E file_id \in pending :
        /\ global_hashes' = FastMerge(global_hashes, file_id,
                                      process_file_fast(fs[files[file_id + 1]], config))
        /\ pending' = pending \ {file_id}
    /\ UNCHANGED <<fs, backups, pc, report, output_data>>
    /\ UNCHANGED <<runVars, safeVars, diskVars, deleteVars>>

\* A faulty driver that merges the result of a worker although the worker
\* is recorded as failed.  The isolation of a failed file must reject it.
FastFailMerged ==
    /\ pc = "fast"
    /\ \E file_id \in pending :
        /\ global_hashes' = FastMerge(global_hashes, file_id,
                                      process_file_fast(fs[files[file_id + 1]], config))
        /\ failed' = failed \cup {[kind |-> "fast", id |-> file_id]}
        /\ pending' = pending \ {file_id}
    /\ UNCHANGED <<fs, backups, pc, report, output_data>>
    /\ UNCHANGED <<envVars, safeVars, diskVars, deleteVars>>

\* run_strategy_fast: future.result() raises; the exception is logged and
\* the loop goes on with the next future
FastFail ==
    /\ pc = "fast"
    /\ \E file_id \in pending :
        /\ failed' = failed \cup {[kind |-> "fast", id |-> file_id]}
        /\ pending' = pending \ {file_id}
    /\ UNCHANGED <<fs, backups, pc, report, output_data>>
    /\ UNCHANGED <<envVars, fastVars, safeVars, diskVars, deleteVars>>

\* run_strategy_fast after the executor block
FastEmit ==
    /\ pc = "fast"
    /\ pending = {}
    /\ Emit(FastOutput(global_hashes, files))
    /\ UNCHANGED <<fs, backups, report, pending>>
    /\ UNCHANGED <<runVars, fastVars, safeVars, diskVars>>

\* run_strategy_safe, pass 1: one future completes
SafeComplete1 ==
    /\ pc = "safe1"
    /\ \E file_id \in pending :
        /\ hash_to_file_counts' =
               SafeMerge1(hash_to_file_counts, file_id,
                          process_file_safe_pass1(fs[files[file_id + 1]], config))
        /\ pending' = pending \ {file_id}
    /\ UNCHANGED <<fs, backups, pc, report, output_data, duplicate_hashes, hash_to_prefix_map>>
    /\ UNCHANGED <<runVars, fastVars, diskVars, deleteVars>>

\* run_strategy_safe, pass 1: future.result() raises; logged, the loop goes on
SafeFail1 ==
    /\ pc = "safe1"
    /\ \E file_id \in pending :
        /\ failed' = failed \cup {[kind |-> "safe1", id |-> file_id]}
        /\ pending' = pending \ {file_id}
    /\ UNCHANGED <<fs, backups, pc, report, output_data>>
    /\ UNCHANGED <<envVars, fastVars, safeVars, diskVars, deleteVars>>

\* run_strategy_safe between the passes: duplicate_hashes, and the early
\* return through write_duplicates({}) when there is none
SafeBetween ==
    /\ pc = "safe1"
    /\ pending = {}
    /\ duplicate_hashes' = DuplicateHashes(hash_to_file_counts)
    /\ IF duplicate_hashes' = {}
       THEN /\ report' = write_duplicates(EmptyDict)
            /\ pc' = "done"
            /\ pending' = {}
       ELSE /\ report' = report
            /\ pc' = "safe2"
            /\ pending' = 0..(Len(files) - 1)
    /\ UNCHANGED <<fs, backups, output_data, hash_to_file_counts, hash_to_prefix_map>>
    /\ UNCHANGED <<runVars, fastVars, diskVars, deleteVars>>

\* run_strategy_safe, pass 2: one future completes
SafeComplete2 ==
    /\ pc = "safe2"
    /\ \E file_id \in pending :
        /\ hash_to_prefix_map' =
               SafeMerge2(hash_to_prefix_map,
                          process_file_safe_pass2(fs[files[file_id + 1]],
                                                  duplicate_hashes, config))
        /\ pending' = pending \ {file_id}
    /\ UNCHANGED <<fs, backups, pc, report, output_data, duplicate_hashes, hash_to_file_counts>>
    /\ UNCHANGED <<runVars, fastVars, diskVars, deleteVars>>

\* run_strategy_safe, pass 2: future.result() raises; logged, the loop goes on
SafeFail2 ==
    /\ pc = "safe2"
    /\ \E file_id \in pending :
        /\ failed' = failed \cup {[kind |-> "safe2", id |-> file_id]}
        /\ pending' = pending \ {file_id}
    /\ UNCHANGED <<fs, backups, pc, report, output_data>>
    /\ UNCHANGED <<envVars, fastVars, safeVars, diskVars, deleteVars>>

\* run_strategy_safe after pass 2
SafeEmit ==
    /\ pc = "safe2"
    /\ pending = {}
    /\ Emit(SafeOutput(hash_to_prefix_map, duplicate_hashes, hash_to_file_counts, files))
    /\ UNCHANGED <<fs, backups, report, pending>>
    /\ UNCHANGED <<runVars, fastVars, safeVars, diskVars>>

\* run_strategy_disk, phase 1: one future completes; its run files are in
\* TEMP_DIR and all_temp_files is extended with their paths
DiskComplete ==
    /\ pc = "disk1"
    /\ \E file_id \in pending :
        LET chunk_files == process_and_sort_chunk_disk(
                               fs[files[file_id + 1]], file_id, config, chunk_size_bytes)
            paths == [i \in 1..Len(chunk_files) |-> chunk_files[i].path]
        IN /\ temp_dir' = [temp_dir EXCEPT !.entries =
                              [q \in (DOMAIN @) \cup Range(paths) |->
                                  IF q \in Range(paths)
                                  THEN (CHOOSE c \in Range(chunk_files) : c.path = q).lines
                                  ELSE @[q]]]
           /\ all_temp_files' = all_temp_files \o paths
           /\ pending' = pending \ {file_id}
    /\ UNCHANGED <<fs, backups, pc, report, output_data, temp_files_for_merge,
                   merged_level_files, merge_level, merge_i,
                   open_files>>
    /\ UNCHANGED <<runVars, fastVars, safeVars, deleteVars>>

\* run_strategy_disk: merge_level = 0; temp_files_for_merge = all_temp_files.copy()
DiskBeginMerge ==
    /\ pc = "disk1"
    /\ pending = {}
    /\ pc' = "disk2"
    /\ merge_level' = 0
    /\ merge_i' = 0
    /\ temp_files_for_merge' = all_temp_files
    /\ merged_level_files' = <<>>
    /\ UNCHANGED <<fs, backups, report, output_data, pending, temp_dir, all_temp_files,
                   open_files>>
    /\ UNCHANGED <<runVars, fastVars, safeVars, deleteVars>>

\* A faulty merge that writes the files of the batch one after the other.
\* The independence of the cascade shape must reject it.
merge_files_concatenated(batch, entries) ==
    LET F[i \in 0..Len(batch)] ==
            IF i = 0 THEN <<>> ELSE F[i - 1] \o entries[batch[i]]
    IN F[Len(batch)]

\* merge_files(batch, output_path): the lines written to output_path
merge_files(batch, entries) ==
    HeapqMerge([i \in 1..Len(batch) |-> entries[batch[i]]])

\* The batch of the cascade loop that begins at index merge_i:
\* temp_files_for_merge[i:i + config['merge_batch_size']]
MergeBatch ==
    LET last == IF merge_i + config.merge_batch_size < Len(temp_files_for_merge)
                THEN merge_i + config.merge_batch_size
                ELSE Len(temp_files_for_merge)
    IN [last |-> last, paths |-> SubSeq(temp_files_for_merge, merge_i + 1, last)]

\* run_strategy_disk, phase 2: the cascade loop reaches its next batch and
\* merge_files opens the files of the batch; the first batch of a level
\* increments merge_level.  The loop is followed for MaxMergeLevel levels.
DiskMergeOpen ==
    /\ pc = "disk2"
    /\ Len(temp_files_for_merge) > 1
    /\ open_files = <<>>
    /\ LET level == IF merge_i = 0 THEN merge_level + 1 ELSE merge_level
       IN /\ level <= MaxMergeLevel
          /\ merge_level' = level
    /\ open_files' = MergeBatch.paths
    /\ UNCHANGED <<fs, backups, pc, report, output_data, pending, temp_dir, all_temp_files,
                   temp_files_for_merge, merged_level_files, merge_i>>
    /\ UNCHANGED <<runVars, fastVars, safeVars, deleteVars>>

\* run_strategy_disk, phase 2: merge_files writes the merged batch and
\* closes its files; the output joins merged_level_files and
\* all_temp_files; the last batch of a level ends the level
DiskMergeBatch ==
    /\ pc = "disk2"
    /\ open_files # <<>>
    /\ LET output_path == MergedPath(merge_level, merge_i)
           done == Append(merged_level_files, output_path)
       IN /\ temp_dir' = [temp_dir EXCEPT !.entries =
                             Put(@, output_path, merge_files(open_files, @))]
          /\ all_temp_files' = Append(all_temp_files, output_path)
          /\ IF MergeBatch.last = Len(temp_files_for_merge)
             THEN /\ temp_files_for_merge' = done
                  /\ merged_level_files' = <<>>
                  /\ merge_i' = 0
             ELSE /\ temp_files_for_merge' = temp_files_for_merge
                  /\ merged_level_files' = done
                  /\ merge_i' = merge_i + config.merge_batch_size
    /\ open_files' = <<>>
    /\ UNCHANGED <<fs, backups, pc, report, output_data, pending, merge_level>>
    /\ UNCHANGED <<runVars, fastVars, safeVars, deleteVars>>

\* run_strategy_disk, phase 3: the group-by over final_merged_file
DiskEmit ==
    /\ pc = "disk2"
    /\ Len(temp_files_for_merge) <= 1
    /\ open_files = <<>>
    /\ LET final_lines ==
               IF temp_files_for_merge # <<>>
                  /\ temp_files_for_merge[1] \in DOMAIN temp_dir.entries
               THEN temp_dir.entries[temp_files_for_merge[1]] ELSE <<>>
       IN Emit(DiskOutput(final_lines, files))
    /\ UNCHANGED <<fs, backups, report, pending>>
    /\ UNCHANGED <<runVars, fastVars, safeVars, diskVars>>

\* delete_duplicate_rows, stage 1: one call of delete_rows_from_file
StageADelete ==
    /\ pc = "stage_a"
    /\ stage_a_queue # <<>>
    /\ LET task == Head(stage_a_queue)
       IN /\ fs' = [fs EXCEPT ![task.file] =
                        delete_rows_from_file(@, task.lines_to_remove)]
          /\ backups' = Remove(backups, task.file)
          /\ inter_file_deleted_counts' =
                 Put(inter_file_deleted_counts, task.file,
                     CountOf(inter_file_deleted_counts, task.file)
                         + Len(task.lines_to_remove))
    /\ stage_a_queue' = Tail(stage_a_queue)
    /\ pc' = IF stage_a_queue' = <<>> THEN "stage_b" ELSE "stage_a"
    /\ UNCHANGED <<report, output_data, pending, stage_b_next, intra_file_deleted_counts>>
    /\ UNCHANGED <<runVars, fastVars, safeVars, diskVars>>

\* delete_duplicate_rows, stage 2: find_and_delete_intrafile_duplicates on
\* the next file
StageBFile ==
    /\ pc = "stage_b"
    /\ stage_b_next <= Len(files)
    /\ LET name == files[stage_b_next]
           intra_deleted == IntraFileScan(fs[name], config).deleted_count
       IN /\ fs' = [fs EXCEPT ![name] = find_and_delete_intrafile_duplicates(@, config)]
          /\ backups' = IF intra_deleted > 0 THEN Remove(backups, name) ELSE backups
          /\ intra_file_deleted_counts' =
                 IF intra_deleted > 0
                 THEN Put(intra_file_deleted_counts, name, intra_deleted)
                 ELSE intra_file_deleted_counts
    /\ stage_b_next' = stage_b_next + 1
    /\ pc' = IF stage_b_next' > Len(files) THEN "write" ELSE "stage_b"
    /\ UNCHANGED <<report, output_data, pending, stage_a_queue, inter_file_deleted_counts>>
    /\ UNCHANGED <<runVars, fastVars, safeVars, diskVars>>

\* the steps of a rewrite at which an exception may come: reading the file
\* and writing the filtered lines aside (the temp file of stage 1, the list
\* lines_to_keep of stage 2), shutil.copy2 to the .backup, replacing the
\* file, backup_path.unlink()
RewriteSteps == {"write_temp", "copy_backup", "move", "unlink_backup"}

\* A faulty rewrite that replaces the file without having made the backup.
\* The recoverability of the content must reject it.
RewriteFailureNoBackup(name, old, new, step, k) ==
    LET moved == IF step = "unlink_backup" THEN [fs EXCEPT ![name] = new]
                 ELSE IF step = "move" /\ k >= 0
                      THEN [fs EXCEPT ![name] = Take(new, k)]
                 ELSE fs
    IN [fs |-> moved, backups |-> backups]

\* the directory and the backups after a rewrite of the file name from old
\* to new has raised at a step: the steps before it are complete, the step
\* itself has written the first k lines of its target (k = -1: the target
\* was not opened)
RewriteFailure(name, old, new, step, k) ==
    LET before == {t \in RewriteSteps :
                      \/ (step = "copy_backup" /\ t = "write_temp")
                      \/ (step = "move" /\ t \in {"write_temp", "copy_backup"})
                      \/ (step = "unlink_backup" /\ t # "unlink_backup")}
        copied == IF "copy_backup" \in before THEN Put(backups, name, old)
                  ELSE IF step = "copy_backup" /\ k >= 0
                       THEN Put(backups, name, Take(old, k))
                  ELSE backups
        moved == IF "move" \in before THEN [fs EXCEPT ![name] = new]
                 ELSE IF step = "move" /\ k >= 0
                      THEN [fs EXCEPT ![name] = Take(new, k)]
                 ELSE fs
    IN [fs |-> moved, backups |-> copied]

\* the numbers of lines a failing step may have written
WrittenBy(step, old, new) ==
    CASE step = "copy_backup" -> -1..(Len(old) - 1)
      [] step = "move" -> -1..(Len(new) - 1)
      [] OTHER -> {-1}

\* delete_duplicate_rows, stage 1: delete_rows_from_file raises inside
\* its try block, logs the error and returns False; the deletion is not
\* counted and the loop goes on with the next file.  shutil.move replaces
\* the file at once, or copies the temp file over it when the two are on
\* different file systems.
StageADeleteFail ==
    /\ pc = "stage_a"
    /\ stage_a_queue # <<>>
    /\ LET task == Head(stage_a_queue)
           old == fs[task.file]
           new == delete_rows_from_file(old, task.lines_to_remove)
       IN /\ \E step \in RewriteSteps : \E k \in WrittenBy(step, old, new) :
                 LET after == RewriteFailure(task.file, old, new, step, k)
                 IN fs' = after.fs /\ backups' = after.backups
          /\ failed' = failed \cup {[kind |-> "stage_a", id |-> Len(stage_a_queue)]}
    /\ stage_a_queue' = Tail(stage_a_queue)
    /\ pc' = IF stage_a_queue' = <<>> THEN "stage_b" ELSE "stage_a"
    /\ UNCHANGED <<report, output_data, pending, stage_b_next,
                   inter_file_deleted_counts, intra_file_deleted_counts>>
    /\ UNCHANGED <<envVars, fastVars, safeVars, diskVars>>

\* delete_duplicate_rows, stage 2: find_and_delete_intrafile_duplicates
\* raises inside its try block, logs the error and returns 0; the loop goes
\* on with the next file.  The scan of the file may raise for any file; the
\* later steps are taken when deleted_count > 0, and the file is replaced
\* by reopening it for writing.
StageBFileFail ==
    /\ pc = "stage_b"
    /\ stage_b_next <= Len(files)
    /\ LET name == files[stage_b_next]
           scan == IntraFileScan(fs[name], config)
           steps == IF scan.deleted_count > 0 THEN RewriteSteps ELSE {"write_temp"}
       IN \E step \in steps : \E k \in WrittenBy(step, fs[name], scan.lines_to_keep) :
              LET after == RewriteFailure(name, fs[name], scan.lines_to_keep, step, k)
              IN fs' = after.fs /\ backups' = after.backups
    /\ failed' = failed \cup {[kind |-> "stage_b", id |-> stage_b_next]}
    /\ stage_b_next' = stage_b_next + 1
    /\ pc' = IF stage_b_next' > Len(files) THEN "write" ELSE "stage_b"
    /\ UNCHANGED <<report, output_data, pending, stage_a_queue,
                   inter_file_deleted_counts, intra_file_deleted_counts>>
    /\ UNCHANGED <<envVars, fastVars, safeVars, diskVars>>

\* the end of delete_duplicate_rows (when deletion is enabled) and
\* write_duplicates(output_data, DEFAULT_OUTPUT_FILE, logger)
WriteReport ==
    /\ pc = "write"
    /\ output_data' =
           IF config.deleteduplicates
           THEN ModifiedDuplicatesData(output_data, inter_file_deleted_counts,
                                       intra_file_deleted_counts)
           ELSE output_data
    /\ report' = write_duplicates(output_data')
    /\ pc' = IF strategy = "disk" THEN "cleanup" ELSE "done"
    /\ UNCHANGED <<fs, backups, pending>>
    /\ UNCHANGED <<runVars, fastVars, safeVars, diskVars, deleteVars>>

\* run_strategy_disk, phase 1, a worker that hits an exception at its
\* chunk c: process_and_sort_chunk_disk logs it and returns the chunk files
\* it has appended to chunk_files.  Either the exception came before the
\* file of chunk c was opened for writing (written = -1), or its write
\* failed after the first written lines.
DiskCompletePartial ==
    /\ pc = "disk1"
    /\ \E file_id \in pending :
        LET chunk_files == process_and_sort_chunk_disk(
                               fs[files[file_id + 1]], file_id, config, chunk_size_bytes)
        IN \E c \in 1..Len(chunk_files) :
           \E written \in -1..(Len(chunk_files[c].lines) - 1) :
             LET returned == [i \in 1..(c - 1) |-> chunk_files[i].path]
                 created == Range(returned)
                                \cup (IF written >= 0 THEN {chunk_files[c].path} ELSE {})
             IN /\ temp_dir' = [temp_dir EXCEPT !.entries =
                                   [q \in (DOMAIN @) \cup created |->
                                       IF q = chunk_files[c].path
                                       THEN Take(chunk_files[c].lines, written)
                                       ELSE IF q \in created
                                       THEN (CHOOSE x \in Range(chunk_files) :
                                                 x.path = q).lines
                                       ELSE @[q]]]
                /\ all_temp_files' = all_temp_files \o returned
                /\ failed' = failed \cup {[kind |-> "chunk", id |-> file_id]}
                /\ pending' = pending \ {file_id}
    /\ UNCHANGED <<fs, backups, pc, report, output_data, temp_files_for_merge,
                   merged_level_files, merge_level, merge_i, open_files>>
    /\ UNCHANGED <<envVars, fastVars, safeVars, deleteVars>>

\* run_strategy_disk, phase 1: future.result() raises (the worker process
\* ended without returning); the chunk files it had completed, some first
\* ones, stay in TEMP_DIR and nothing joins all_temp_files
DiskFail ==
    /\ pc = "disk1"
    /\ \E file_id \in pending :
        LET chunk_files == process_and_sort_chunk_disk(
                               fs[files[file_id + 1]], file_id, config, chunk_size_bytes)
        IN \E c \in 0..Len(chunk_files) :
             LET created == {chunk_files[i].path : i \in 1..c}
             IN /\ temp_dir' = [temp_dir EXCEPT !.entries =
                                   [q \in (DOMAIN @) \cup created |->
                                       IF q \in created
                                       THEN (CHOOSE x \in Range(chunk_files) :
                                                 x.path = q).lines
                                       ELSE @[q]]]
                /\ failed' = failed \cup {[kind |-> "disk", id |-> file_id]}
                /\ pending' = pending \ {file_id}
    /\ UNCHANGED <<fs, backups, pc, report, output_data, all_temp_files, temp_files_for_merge,
                   merged_level_files, merge_level, merge_i, open_files>>
    /\ UNCHANGED <<envVars, fastVars, safeVars, deleteVars>>

\* run_strategy_disk, phase 2: opening a file of the next batch raises.
\* merge_files closes what it had opened (finally) and the exception leaves
\* run_strategy_disk through its finally block.
DiskMergeOpenRaise ==
    /\ pc = "disk2"
    /\ Len(temp_files_for_merge) > 1
    /\ open_files = <<>>
    /\ LET level == IF merge_i = 0 THEN merge_level + 1 ELSE merge_level
       IN /\ level <= MaxMergeLevel
          /\ merge_level' = level
    /\ open_files' = <<>>
    /\ failed' = failed \cup {[kind |-> "merge_open", id |-> merge_i]}
    /\ pc' = "cleanup"
    /\ UNCHANGED <<fs, backups, report, output_data, pending, temp_dir, all_temp_files,
                   temp_files_for_merge, merged_level_files, merge_i>>
    /\ UNCHANGED <<envVars, fastVars, safeVars, deleteVars>>

\* A faulty merge_files without its finally block: when writing the merged
\* batch raises, the files of the batch stay open.  The bound on the open
\* files must reject it.
DiskMergeRaiseNoFinally ==
    /\ pc = "disk2"
    /\ open_files # <<>>
    /\ LET output_path == MergedPath(merge_level, merge_i)
           merged_lines == merge_files(open_files, temp_dir.entries)
       IN \E written \in -1..(Len(merged_lines) - 1) :
              temp_dir' = IF written < 0 THEN temp_dir
                          ELSE [temp_dir EXCEPT !.entries =
                                   Put(@, output_path, Take(merged_lines, written))]
    /\ failed' = failed \cup {[kind |-> "merge", id |-> merge_i]}
    /\ pc' = "cleanup"
    /\ UNCHANGED <<fs, backups, report, output_data, pending, all_temp_files,
                   temp_files_for_merge, merged_level_files, merge_level, merge_i,
                   open_files>>
    /\ UNCHANGED <<envVars, fastVars, safeVars, deleteVars>>

\* run_strategy_disk, phase 2: writing the merged batch raises after the
\* first written lines (written = -1: output_path could not be opened).
\* merge_files closes the files of the batch (finally); output_path is not
\* appended to all_temp_files; the exception leaves run_strategy_disk
\* through its finally block.
DiskMergeRaise ==
    /\ pc = "disk2"
    /\ open_files # <<>>
    /\ LET output_path == MergedPath(merge_level, merge_i)
           merged_lines == merge_files(open_files, temp_dir.entries)
       IN \E written \in -1..(Len(merged_lines) - 1) :
              temp_dir' = IF written < 0 THEN temp_dir
                          ELSE [temp_dir EXCEPT !.entries =
                                   Put(@, output_path, Take(merged_lines, written))]
    /\ open_files' = <<>>
    /\ failed' = failed \cup {[kind |-> "merge", id |-> merge_i]}
    /\ pc' = "cleanup"
    /\ UNCHANGED <<fs, backups, report, output_data, pending, all_temp_files,
                   temp_files_for_merge, merged_level_files, merge_level, merge_i>>
    /\ UNCHANGED <<envVars, fastVars, safeVars, deleteVars>>

\* run_strategy_disk, phase 3: reading final_merged_file raises; the
\* exception leaves run_strategy_disk through its finally block
DiskEmitRaise ==
    /\ pc = "disk2"
    /\ Len(temp_files_for_merge) = 1
    /\ open_files = <<>>
    /\ failed' = failed \cup {[kind |-> "phase3", id |-> 0]}
    /\ pc' = "cleanup"
    /\ UNCHANGED <<fs, backups, report, output_data, pending, diskVars>>
    /\ UNCHANGED <<envVars, fastVars, safeVars, deleteVars>>

\* the exceptions that no handler of the program catches: main() ends with
\* a traceback
Uncaught == \E x \in failed : x.kind \in {"merge_open", "merge", "phase3"}

\* run_strategy_disk, the finally block: unlink every file of
\* all_temp_files, then TEMP_DIR.rmdir(), which fails on a non-empty directory
DiskCleanup ==
    /\ pc = "cleanup"
    /\ LET left == (DOMAIN temp_dir.entries) \ Range(all_temp_files)
       IN temp_dir' = IF left = {} THEN NoTempDir
                      ELSE [exists |-> TRUE,
                            entries |-> [q \in left |-> temp_dir.entries[q]]]
    /\ pc' = IF Uncaught THEN "crashed" ELSE "done"
    /\ UNCHANGED <<fs, backups, report, output_data, pending, all_temp_files,
                   temp_files_for_merge, merged_level_files, merge_level, merge_i,
                   open_files>>
    /\ UNCHANGED <<runVars, fastVars, safeVars, deleteVars>>

(***************************************************************************)
(* Initial states: an input directory of two files, a header line each,    *)
(* with data lines drawn from a pool                                       *)
(***************************************************************************)
\* the basenames "a" and "b"
Basenames == {<<97>>, <<98>>}
\* the header line "h"
HeaderLine == <<104>>

\* "a", "a;b" (the key of "a", another prefix), "a b" and "a bc" (two more
\* keys, both of prefix "a ")
LinePool == {<<97>>, <<97, SEMICOLON, 98>>, <<97, SPACE, 98>>, <<97, SPACE, 98, 99>>}
\* "a", " a" (the line "a" once stripped), " b" and a blank line
DeletionPool == {<<97>>, <<SPACE, 97>>, <<SPACE, 98>>, <<>>}

RECURSIVE SeqsOfLen(_, _)
SeqsOfLen(S, n) ==
    IF n = 0 THEN {<<>>}
    ELSE {<<x>> \o t : x \in S, t \in SeqsOfLen(S, n - 1)}

\* the input directories with at most n data lines in all
Corpora(pool, n) ==
    LET bodies == UNION {SeqsOfLen(pool, k) : k \in 0..n}
    IN {d \in [Basenames -> {<<HeaderLine>> \o b : b \in bodies}] :
           SumOver([x \in Basenames |-> Len(d[x]) - 1], Basenames) <= n}

\* a session: the input directory and vars(args) before the first run
InitWithConfig(corpora, configs) ==
    /\ fs \in corpora
    /\ config \in configs
    /\ backups = EmptyDict
    /\ pc = "idle"
    /\ strategy = "none"
    /\ available_ram = -1
    /\ files = <<>>
    /\ pending = {}
    /\ global_hashes = <<>>
    /\ hash_to_file_counts = EmptyDict
    /\ duplicate_hashes = {}
    /\ hash_to_prefix_map = <<>>
    /\ temp_dir = NoTempDir
    /\ all_temp_files = <<>>
    /\ temp_files_for_merge = <<>>
    /\ merged_level_files = <<>>
    /\ merge_level = 0
    /\ merge_i = 0
    /\ output_data = EmptyDict
    /\ stage_a_queue = <<>>
    /\ stage_b_next = 0
    /\ inter_file_deleted_counts = EmptyDict
    /\ intra_file_deleted_counts = EmptyDict
    /\ report = <<>>
    /\ start = fs
    /\ rerun = FALSE
    /\ input_dir \in (IF DOMAIN fs = {} THEN BOOLEAN ELSE {TRUE})
    /\ probe = "none"
    /\ failed = {}
    /\ open_files = <<>>

\* the sessions with --hash-delimiter ';', --hash-fields 1, --write-length 2
InitWithBatch(corpora, deletion, strategies, batch_sizes) ==
    InitWithConfig(corpora,
                   {[strategy |-> st, hash_delimiter |-> SEMICOLON, hash_fields |-> 1,
                     write_length |-> 2, merge_batch_size |-> mbs,
                     deleteduplicates |-> dd] :
                        dd \in deletion, st \in strategies, mbs \in batch_sizes})

\* the sessions with --merge-batch-size 2
InitWith(corpora, deletion, strategies) ==
    InitWithBatch(corpora, deletion, strategies, {2})

Engines == {"fast", "safe", "disk"}

Init == InitWith(Corpora(LinePool, MaxLines), BOOLEAN, Engines)

Run ==
    \/ FastComplete \/ FastEmit
    \/ SafeComplete1 \/ SafeBetween \/ SafeComplete2 \/ SafeEmit
    \/ DiskComplete \/ DiskBeginMerge \/ DiskMergeOpen \/ DiskMergeBatch
    \/ DiskEmit \/ DiskCleanup
    \/ StageADelete \/ StageBFile
    \/ WriteReport

Next == Start \/ Run

Spec == Init /\ [][Next]_vars

\* runs with deletion enabled
InitDelete == InitWith(Corpora(DeletionPool, MaxDeleteLines), {TRUE}, Engines)
SpecDelete == InitDelete /\ [][Next]_vars

\* runs with --strategy auto, up to the dispatch
InitAuto == InitWith(Corpora(DeletionPool, MaxDeleteLines), {FALSE}, {"auto"})
NextAuto == AutoStart
SpecAuto == InitAuto /\ [][NextAuto]_vars

\* runs whose report has several entries: "a", and "a b" and "a bc" (two
\* keys of prefix "a ")
ReportPool == {<<97>>, <<97, SPACE, 98>>, <<97, SPACE, 98, 99>>}
InitReport == InitWith(Corpora(ReportPool, MaxReportLines), BOOLEAN, Engines)
SpecReport == InitReport /\ [][Next]_vars

\* runs with deletion over "a b" and "a bc", two keys of prefix "a "
CollidePool == {<<97, SPACE, 98>>, <<97, SPACE, 98, 99>>}
InitCollide == InitWith(Corpora(CollidePool, MaxCollideLines), {TRUE}, Engines)
SpecCollide == InitCollide /\ [][Next]_vars

\* DISK runs in which a merge or phase 3 may raise, for the merge batch
\* sizes 1, 2 and 3: "a;bc" and "a   " (the key "a" under two prefixes) and
\* "b;cd"; at chunk_size_bytes 4 each of them fills a chunk
DiskPool == {<<97, SEMICOLON, 98, 99>>, <<97, SPACE, SPACE, SPACE>>,
             <<98, SEMICOLON, 99, 100>>}
BatchSizes == {1, 2, 3}
InitDisk == InitWithBatch(Corpora(DiskPool, MaxDiskLines), {FALSE}, {"disk"}, BatchSizes)
NextDisk ==
    \/ Start
    \/ DiskComplete \/ DiskBeginMerge
    \/ DiskMergeOpen \/ DiskMergeOpenRaise \/ DiskMergeBatch \/ DiskMergeRaise
    \/ DiskEmit \/ DiskEmitRaise \/ WriteReport \/ DiskCleanup
SpecDisk == InitDisk /\ [][NextDisk]_vars

\* the same with workers that may fail in phase 1, --merge-batch-size 2
InitDiskFaults == InitWith(Corpora(DiskPool, MaxDiskLines), {FALSE}, {"disk"})
NextDiskFaults == NextDisk \/ DiskCompletePartial
SpecDiskFaults == InitDiskFaults /\ [][NextDiskFaults]_vars

\* DISK runs over chunks of several records: "a;" and "a" (the key "a" under
\* two prefixes) and "b"; at chunk_size_bytes 4 a chunk holds two or three
\* of these lines
RunPool == {<<97, SEMICOLON>>, <<97>>, <<98>>}
InitRuns == InitWith(Corpora(RunPool, MaxRunLines), {FALSE}, {"disk"})
NextRuns ==
    \/ FirstStart
    \/ DiskComplete \/ DiskBeginMerge \/ DiskMergeOpen \/ DiskMergeBatch
    \/ DiskEmit \/ WriteReport \/ DiskCleanup
SpecRuns == InitRuns /\ [][NextRuns]_vars

\* runs with deletion over data lines that may repeat the header: "h" and
\* " h" (the line of the header, of one key), "a" and a blank line
IntraPool == {<<104>>, <<SPACE, 104>>, <<97>>, <<>>}
InitIntra == InitWith(Corpora(IntraPool, MaxIntraLines), {TRUE}, Engines)
SpecIntra == InitIntra /\ [][Next]_vars

\* FAST runs with --hash-fields 1 to MaxFields and the delimiter ';' or ' '
\* over lines of one, two, three, four and seven fields: "a", " a;b ",
\* "a;b c", "a;;b c;d" and "a;;;;;;b"
KeyPool == {<<97>>,
            <<SPACE, 97, SEMICOLON, 98, SPACE>>,
            <<97, SEMICOLON, 98, SPACE, 99>>,
            <<97, SEMICOLON, SEMICOLON, 98, SPACE, 99, SEMICOLON, 100>>,
            <<97, SEMICOLON, SEMICOLON, SEMICOLON, SEMICOLON, SEMICOLON, SEMICOLON, 98>>}
InitKey ==
    InitWithConfig(Corpora(KeyPool, MaxKeyLines),
                   {[strategy |-> "fast", hash_delimiter |-> d, hash_fields |-> k,
                     write_length |-> 2, merge_batch_size |-> 2,
                     deleteduplicates |-> FALSE] :
                        d \in {SEMICOLON, SPACE}, k \in 1..MaxFields})
NextKey == FirstStart \/ FastComplete \/ FastEmit \/ WriteReport
SpecKey == InitKey /\ [][NextKey]_vars

\* FAST runs with deletion in which a rewrite may fail at each of its steps
InitRewrite == InitWith(Corpora(DeletionPool, MaxRewriteLines), {TRUE}, {"fast"})
NextRewrite ==
    \/ FirstStart \/ FastComplete \/ FastEmit
    \/ StageADelete \/ StageADeleteFail \/ StageBFile \/ StageBFileFail
    \/ WriteReport
SpecRewrite == InitRewrite /\ [][NextRewrite]_vars

\* runs of the three engines in which the worker of a file may fail
InitWorkers == InitWith(Corpora(DeletionPool, MaxWorkerLines), {FALSE}, Engines)
NextWorkers ==
    \/ FirstStart
    \/ FastComplete \/ FastFail \/ FastEmit
    \/ SafeComplete1 \/ SafeFail1 \/ SafeBetween
    \/ SafeComplete2 \/ SafeFail2 \/ SafeEmit
    \/ DiskComplete \/ DiskCompletePartial \/ DiskFail \/ DiskBeginMerge
    \/ DiskMergeOpen \/ DiskMergeBatch \/ DiskEmit
    \/ WriteReport \/ DiskCleanup
SpecWorkers == InitWorkers /\ [][NextWorkers]_vars

\* DISK runs over the lines "abc", "a b" and "a<TAB>b" with --write-length
\* 0, 2 and 3: the prefixes are empty, end in a space left by the truncation
\* or by the replacement of the TAB, or end in a letter
RecordPool == {<<97, 98, 99>>, <<97, SPACE, 98>>, <<97, DISK_MODE_DELIMITER, 98>>}
WriteLengths == {0, 2, 3}
InitRecord ==
    InitWithConfig(Corpora(RecordPool, MaxRecordLines),
                   {[strategy |-> "disk", hash_delimiter |-> SEMICOLON,
                     hash_fields |-> 1, write_length |-> wl,
                     merge_batch_size |-> 2, deleteduplicates |-> FALSE] :
                        wl \in WriteLengths})
SpecRecord == InitRecord /\ [][NextRuns]_vars

\* runs of the three engines, with deletion enabled or disabled, in which
\* the worker of a file may fail
InitFrame == InitWith(Corpora(DeletionPool, MaxFrameLines), BOOLEAN, Engines)
NextFrame == NextWorkers \/ StageADelete \/ StageBFile
SpecFrame == InitFrame /\ [][NextFrame]_vars

\* runs on a directory that may be missing or empty, with deletions whose
\* rewrite of a file may fail
InitMain ==
    InitWith(Corpora(DeletionPool, MaxMainLines) \cup {EmptyDict}, BOOLEAN, Engines)
NextMain == Start \/ StartNoFiles \/ Run \/ StageADeleteFail \/ StageBFileFail
SpecMain == InitMain /\ [][NextMain]_vars

\* runs with --strategy auto, from the selection to the end of the run
InitProbe == InitWith(Corpora(DeletionPool, MaxProbeLines), BOOLEAN, {"auto"})
NextProbe == AutoStart \/ Run
SpecProbe == InitProbe /\ [][NextProbe]_vars

(***************************************************************************)
(* Vocabulary of the properties                                            *)
(***************************************************************************)
\* the NormalizedKey of a stripped line
KeyOf(stripped_line, cfg) ==
    normalize_line(stripped_line, cfg.hash_delimiter, cfg.hash_fields)

\* the NormalizedKeys of the data lines of a directory
CorpusKeys(dir, cfg) ==
    UNION {{KeyOf(l, cfg) : l \in Range(ScanLines(dir[name]))} : name \in DOMAIN dir}

\* the number of data lines of key k in a file
Occurrences(content, k, cfg) ==
    LET ls == ScanLines(content)
    IN Cardinality({i \in 1..Len(ls) : KeyOf(ls[i], cfg) = k})

\* the number of data lines of key k in the whole directory
TotalOccurrences(dir, k, cfg) ==
    SumOver([name \in DOMAIN dir |-> Occurrences(dir[name], k, cfg)], DOMAIN dir)

\* the basenames of the files holding a line of key k
FilesWith(dir, k, cfg) == {name \in DOMAIN dir : Occurrences(dir[name], k, cfg) > 0}

\* no two distinct NormalizedKeys of the directory have the same hash
NoHashCollision(dir, cfg) ==
    \A k1, k2 \in CorpusKeys(dir, cfg) :
        k1 # k2 => hash_normalized_line(k1) # hash_normalized_line(k2)

\* the orders in which the futures of n files may complete
CompletionOrders(n) ==
    {q \in [1..n -> 0..(n - 1)] : \A i, j \in 1..n : i # j => q[i] # q[j]}

\* the files of the directory have pairwise different sizes, so that the
\* FileIds do not depend on the order of the enumeration
SizesDiffer(dir) ==
    \A m, n \in DOMAIN dir : m # n => ContentSize(dir[m]) # ContentSize(dir[n])

\* s is a subsequence of t
RECURSIVE IsSubsequence(_, _)
IsSubsequence(s, t) ==
    IF s = <<>> THEN TRUE
    ELSE IF t = <<>> THEN FALSE
    ELSE IF Head(s) = Head(t) THEN IsSubsequence(Tail(s), Tail(t))
    ELSE IsSubsequence(s, Tail(t))

(***************************************************************************)
(* Properties                                                              *)
(***************************************************************************)
\* C1: the engines produce the same DuplicateEntries when no two keys
\* collide under the hash.  Stated for DISK against FAST: the entries a DISK
\* run emits are entries that FAST emits, on the same directory and
\* configuration, for at least one order of completion of its futures.
C1_DiskEmitsWhatFastEmits ==
    (/\ pc = "write"
     /\ strategy = "disk"
     /\ ~config.deleteduplicates
     /\ NoHashCollision(fs, config))
    => \E order \in CompletionOrders(Len(files)) :
           output_data = run_strategy_fast(order, files, fs, config)

\* C2: with deletion disabled, a later run of the same engine on the same
\* directory and configuration writes the duplicates.txt that the earlier
\* run wrote, whatever the order in which the futures of either run complete.
\* The directories are those whose FileIds the enumeration cannot change.
C2_RerunWritesSameReport ==
    [][(rerun /\ ~config.deleteduplicates /\ SizesDiffer(fs)) => report' = report]_vars

\* C3: when the engine has finished, there is exactly one entry per
\* NormalizedKey that occurs more than once in the directory, and the entry
\* of a key lists exactly the basenames of the files that hold the key.
C3_OneEntryPerDuplicatedKey ==
    (/\ pc = "write"
     /\ ~config.deleteduplicates
     /\ NoHashCollision(fs, config))
    => LET dup == {k \in CorpusKeys(fs, config) : TotalOccurrences(fs, k, config) > 1}
       IN \E entry_of \in [dup -> DOMAIN output_data] :
              /\ \A k1, k2 \in dup : k1 # k2 => entry_of[k1] # entry_of[k2]
              /\ \A p \in DOMAIN output_data : \E k \in dup : entry_of[k] = p
              /\ \A k \in dup :
                     /\ Range(output_data[entry_of[k]]) = FilesWith(fs, k, config)
                     /\ Len(output_data[entry_of[k]]) = Cardinality(FilesWith(fs, k, config))

\* C4: after a run with deletion enabled, every NormalizedKey of the
\* directory the run started from has exactly one surviving line.
C4_OneSurvivorPerKey ==
    (/\ pc = "done"
     /\ config.deleteduplicates
     /\ NoHashCollision(start, config))
    => \A k \in CorpusKeys(start, config) : TotalOccurrences(fs, k, config) = 1

\* C5: no file that stage 1 of the deletion rewrites for a hash is the file
\* of smallest FileId among the files that hold the hash, the smallest
\* FileId being that of the smallest file, and of the least basename among
\* files of equal size.
C5_KeepsSmallestFileId ==
    (pc = "stage_a" /\ NoHashCollision(start, config))
    => \A t \in 1..Len(stage_a_queue) :
           LET h == LineHash(stage_a_queue[t].lines_to_remove[1], config)
               holders == {name \in DOMAIN start :
                              \E l \in Range(ScanLines(start[name])) :
                                  LineHash(l, config) = h}
               Before(m, n) ==
                   \/ ContentSize(start[m]) < ContentSize(start[n])
                   \/ ContentSize(start[m]) = ContentSize(start[n]) /\ StrLess(m, n)
               keep == CHOOSE m \in holders : \A n \in holders \ {m} : Before(m, n)
           IN stage_a_queue[t].file # keep

\* C6: at every point of a run with deletion enabled, every NormalizedKey of
\* the directory the run started from still has at least one line.
C6_Conservation ==
    (config.deleteduplicates /\ NoHashCollision(start, config))
    => \A k \in CorpusKeys(start, config) : TotalOccurrences(fs, k, config) >= 1

\* C6, its case: a run has ended in which both stages removed lines
C6_Witness ==
    /\ pc = "done"
    /\ config.deleteduplicates
    /\ DOMAIN inter_file_deleted_counts # {}
    /\ DOMAIN intra_file_deleted_counts # {}
    /\ \E k \in CorpusKeys(start, config) :
           TotalOccurrences(start, k, config) > 2 /\ TotalOccurrences(fs, k, config) = 1

\* C7: a run with deletion enabled that follows a completed run with
\* deletion enabled leaves every file as it found it.
C7_SecondDeletionChangesNothing ==
    (rerun /\ config.deleteduplicates /\ NoHashCollision(start, config)) => fs = start

C9_FileIdOrder ==
    pc # "idle"
    => \A i, j \in 1..Len(files) :
           i < j =>
               \/ ContentSize(start[files[i]]) < ContentSize(start[files[j]])
               \/ /\ ContentSize(start[files[i]]) = ContentSize(start[files[j]])
                  /\ StrLess(files[i], files[j])

C11_FallsBackToSafe ==
    (pc # "idle" /\ probe \in ProbeFailures)
    => /\ strategy = "safe"
       /\ pc \in {"safe1", "safe2", "stage_a", "stage_b", "write", "done"}
       /\ global_hashes = <<>>
       /\ temp_dir = NoTempDir

\* C11, its case: the selection could not be made, the SAFE engine ran to
\* the end and reported a duplicate
C11_Witness ==
    /\ probe \in ProbeFailures
    /\ strategy = "safe"
    /\ pc = "done"
    /\ hash_to_file_counts # EmptyDict
    /\ output_data # EmptyDict
    /\ report # <<>>

\* C11 as stated, with the line-length estimate among the steps whose
\* failure makes the selector return SAFE
C11_AnyStepFallsBackToSafe ==
    (pc # "idle" /\ probe \in ProbeFailures \cup {"estimate_raises"})
    => strategy = "safe"

\* Reading duplicates.txt back: a line that begins with "    - " lists a
\* file, any other line opens an entry.
IsItemLine(line) ==
    Len(line) >= Len(ItemIndent) /\ Take(line, Len(ItemIndent)) = ItemIndent
HasMarker(line) ==
    /\ IsItemLine(line)
    /\ Len(line) >= Len(ItemIndent) + Len(IntraMarker)
    /\ SubSeq(line, Len(ItemIndent) + 1, Len(ItemIndent) + Len(IntraMarker)) = IntraMarker
\* the basename a file line lists, without marker and deletion note
ItemName(line) ==
    CleanName(Drop(line, IF HasMarker(line) THEN Len(ItemIndent) + Len(IntraMarker)
                         ELSE Len(ItemIndent)))
\* the entries of a report, in the order written: [prefix, items]
ReportEntries(lines) ==
    LET heads == SortedInts({i \in DOMAIN lines : ~IsItemLine(lines[i])})
        End(k) == IF k < Len(heads) THEN heads[k + 1] - 1 ELSE Len(lines)
    IN [k \in 1..Len(heads) |->
           [prefix |-> lines[heads[k]],
            items |-> SubSeq(lines, heads[k] + 1, End(k))]]
HasEntries(lines) == lines # <<>> /\ lines # <<NoDuplicatesLine>>

\* C12: in every written report with at least one entry, the entries are
\* in ascending order of prefix and, within an entry, the basenames are in
\* ascending order, whatever the order in which the engine produced them.
C12_ReportIsSorted ==
    HasEntries(report)
    => LET entries == ReportEntries(report)
       IN /\ \A i, j \in DOMAIN entries :
                 i < j => StrLess(entries[i].prefix, entries[j].prefix)
          /\ \A k \in DOMAIN entries :
                 \A i, j \in DOMAIN entries[k].items :
                     i < j => StrLess(ItemName(entries[k].items[i]),
                                      ItemName(entries[k].items[j]))

\* C12, its case: a report of two entries, one of them listing "a" before
\* "b" although the engine produced "b" before "a"
C12_Witness ==
    /\ pc = "done"
    /\ Len(ReportEntries(report)) >= 2
    /\ \E prefix \in DOMAIN output_data :
           /\ Len(output_data[prefix]) = 2
           /\ ItemName(ItemIndent \o output_data[prefix][1]) = <<98>>
           /\ ItemName(ItemIndent \o output_data[prefix][2]) = <<97>>
           /\ \E k \in DOMAIN ReportEntries(report) :
                  /\ ReportEntries(report)[k].prefix = prefix
                  /\ ItemName(ReportEntries(report)[k].items[1]) = <<97>>

\* the DisplayPrefix under which the current engine reports a data line
DisplayPrefix(stripped_line) ==
    IF strategy = "disk"
    THEN Strip(Replace(LinePrefix(stripped_line, config), DISK_MODE_DELIMITER, SPACE))
    ELSE LinePrefix(stripped_line, config)

\* the keys of the directory dir whose lines are reported under prefix
KeysOfPrefix(dir, prefix) ==
    {KeyOf(l, config) : l \in {x \in UNION {Range(ScanLines(dir[name])) : name \in DOMAIN dir} :
                                  DisplayPrefix(x) = prefix}}

\* the basenames an entry of the report lists
EntryNames(entry) == {ItemName(entry.items[i]) : i \in DOMAIN entry.items}

\* C13: in the report of a finished run, the file line of an entry carries
\* the intra-file marker iff the entry lists exactly one basename; and the
\* entry is the one of a duplicated key (a key of its prefix or, after a
\* deletion, the key behind the intra-file-only entry of its file), held by
\* exactly the listed files, so that it lists exactly one basename iff
\* that key occurs more than once in that single file and in no other file.
C13_MarkerIffOneFile ==
    (pc = "done" /\ HasEntries(report))
    => \A k \in DOMAIN ReportEntries(report) :
           LET entry == ReportEntries(report)[k]
           IN /\ \A i \in DOMAIN entry.items :
                     HasMarker(entry.items[i]) <=> Len(entry.items) = 1
              /\ \E key \in CorpusKeys(start, config) :
                     /\ \/ key \in KeysOfPrefix(start, entry.prefix)
                        \/ /\ config.deleteduplicates
                           /\ \E f \in EntryNames(entry) : entry.prefix = dummy_prefix(f)
                     /\ TotalOccurrences(start, key, config) > 1
                     /\ EntryNames(entry) = FilesWith(start, key, config)
                     /\ Len(entry.items) = 1
                            <=> \E f \in DOMAIN start :
                                    /\ Occurrences(start[f], key, config) > 1
                                    /\ FilesWith(start, key, config) = {f}

\* C14: when a DISK run has ended, normally or through an error of phase 1,
\* of a merge or of phase 3, no temp file created during the run remains
\* and the temp directory has been removed.
C14_NoTempFileRemains ==
    (strategy = "disk" /\ pc \in {"done", "crashed"}) => temp_dir = NoTempDir

\* the files of the current run whose worker failed in no phase
Succeeded ==
    {files[i + 1] : i \in {j \in 0..(Len(files) - 1) : \A x \in failed : x.id # j}}
\* the FileIds whose FAST worker did not fail
FastSucceededIds ==
    {j \in 0..(Len(files) - 1) : [kind |-> "fast", id |-> j] \notin failed}
\* the orders in which the futures of the file ids of S may complete
OrdersOf(S) ==
    {q \in [1..Cardinality(S) -> S] : \A i, j \in DOMAIN q : i # j => q[i] # q[j]}

\* C15: when the worker of a file fails (FAST, SAFE pass 1 or 2, DISK
\* phase 1) the run is not aborted: once the engine has emitted, every key
\* that is duplicated within the files whose workers succeeded has an entry
\* listing those of them that hold it, and a finished run has written
\* duplicates.txt from these entries; in FAST the entries are those of a
\* run over the files that did not fail, so that a failed file contributes
\* no occurrence.
C15_OtherFilesAggregated ==
    /\ pc # "crashed"
    /\ pc \in {"write", "cleanup", "done"}
       => /\ \A key \in CorpusKeys(start, config) :
                 SumOver([f \in DOMAIN start |-> Occurrences(start[f], key, config)],
                         Succeeded) > 1
                 => \E prefix \in DOMAIN output_data :
                        /\ key \in KeysOfPrefix(start, prefix)
                        /\ FilesWith(start, key, config) \cap Succeeded
                               \subseteq Range(output_data[prefix])
          /\ strategy = "fast"
             => \E order \in OrdersOf(FastSucceededIds) :
                    output_data = run_strategy_fast(order, files, start, config)
    /\ pc \in {"cleanup", "done"} => report = write_duplicates(output_data)

\* C15, its case: in a finished FAST run the worker of one file failed,
\* that file holds a key of the other file, and the report has the entry
\* of a key repeated in the other file
C15_Witness ==
    /\ pc = "done"
    /\ strategy = "fast"
    /\ Cardinality(failed) = 1
    /\ \E key \in CorpusKeys(start, config) :
           /\ Cardinality(FilesWith(start, key, config)) = 2
           /\ \E prefix \in DOMAIN output_data :
                  /\ key \in KeysOfPrefix(start, prefix)
                  /\ Range(output_data[prefix]) = Succeeded
    /\ HasEntries(report)

\* a rewrite of Stage A or Stage B failed in the current run
RewriteFailed == \E x \in failed : x.kind \in {"stage_a", "stage_b"}

\* C16: a run in which the rewrite of a file failed during Stage A or
\* Stage B ends with an exit status other than 0, the status of a run in
\* which every rewrite succeeded.
C16_RewriteFailureInExitStatus ==
    /\ (pc = "done" /\ files # <<>> /\ failed = {}) => exit_status = 0
    /\ (pc = "done" /\ RewriteFailed) => exit_status # 0

\* C17: when the input directory does not exist the run ends with a
\* non-zero exit status, without running an engine and without writing
\* duplicates.txt; a run that completes, also one that finds no duplicate,
\* ends with status 0.
C17_MissingDirectoryExitStatus ==
    /\ (~input_dir /\ pc # "idle")
       => /\ exit_status \notin {-1, 0}
          /\ strategy = "none"
          /\ report = <<>>
    /\ (input_dir /\ pc = "done" /\ files # <<>> /\ failed = {}) => exit_status = 0

\* the chunk run files phase 1 produces for the directory of the current run
AllChunks ==
    UNION {Range(process_and_sort_chunk_disk(start[files[i + 1]], i, config,
                                             chunk_size_bytes)) :
               i \in 0..(Len(files) - 1)}
\* the entries of one k-way merge of the chunk run files listed in order
OneMerge(order) ==
    DiskOutput(HeapqMerge([i \in DOMAIN order |-> order[i].lines]), files)

\* C18: for the chunk run files of a directory, the entries the DISK engine
\* emits are those of a single merge of all the chunk files, in whatever
\* order they are listed: they depend neither on the merge batch size (the
\* shape of the cascade) nor on the order of the chunk files.
C18_CascadeShapeIrrelevant ==
    (strategy = "disk" /\ pc \in {"write", "cleanup", "done"} /\ failed = {})
    => \A order \in OrdersOf(AllChunks) : output_data = OneMerge(order)

\* C18, its case: a cascade of two levels (batch size 2, three chunk files
\* or more) over a key met under two prefixes has emitted an entry
C18_Witness ==
    /\ strategy = "disk"
    /\ pc = "done"
    /\ failed = {}
    /\ config.merge_batch_size = 2
    /\ merge_level >= 2
    /\ Cardinality(AllChunks) >= 3
    /\ \E x, y \in AllChunks :
           /\ x.lines # <<>> /\ y.lines # <<>>
           /\ ParseRecord(x.lines[1]).prefix # ParseRecord(y.lines[1]).prefix
           /\ GroupKey(x.lines[1]) = GroupKey(y.lines[1])
    /\ output_data # EmptyDict

\* C19: for every number of run files and every positive merge batch size
\* the cascading merge ends with one run: whenever a merge level ends, the
\* next level has strictly fewer runs than the level that ended.
C19_RunsDecreaseEachLevel ==
    [][(pc = "disk2" /\ pc' = "disk2" /\ temp_files_for_merge' # temp_files_for_merge)
       => Len(temp_files_for_merge') < Len(temp_files_for_merge)]_vars

\* C20: during the DISK merge phase at most merge_batch_size run files are
\* open for reading, the open files are the files of the batch being merged
\* and of no earlier batch, and no run file is open once the merge phase has
\* been left, also when it was left because the merge of a batch raised.
C20_OpenFilesBounded ==
    /\ Len(open_files) <= config.merge_batch_size
    /\ (open_files # <<>> => (pc = "disk2" /\ open_files = MergeBatch.paths))
    /\ \A i, j \in DOMAIN open_files : open_files[i] = open_files[j] => i = j

\* a run whose second batch raised while it was written, after a first batch
\* of merge_batch_size >= 2 files had been opened, merged and closed
C20_Witness ==
    /\ pc \in {"cleanup", "crashed"}
    /\ config.merge_batch_size >= 2
    /\ open_files = <<>>
    /\ \E x \in failed : x.kind = "merge" /\ x.id >= config.merge_batch_size

\* the number of occurrences of x in a sequence
CountIn(seq, x) == Cardinality({i \in DOMAIN seq : seq[i] = x})
\* the final merged run: the only run left when the cascade has ended
HasFinalRun ==
    /\ strategy = "disk"
    /\ temp_dir.exists
    /\ Len(temp_files_for_merge) = 1
    /\ temp_files_for_merge[1] \in DOMAIN temp_dir.entries
FinalRun == temp_dir.entries[temp_files_for_merge[1]]

\* C21: the final merged run holds every record of every chunk run as many
\* times as the chunk runs hold it, in ascending order of the hash field, so
\* that the records of one hash are adjacent.
C21_FinalRunIsSortedUnion ==
    HasFinalRun =>
        /\ \A x \in Range(FinalRun) \cup UNION {Range(c.lines) : c \in AllChunks} :
               CountIn(FinalRun, x) =
                   SumOver([c \in AllChunks |-> CountIn(c.lines, x)], AllChunks)
        /\ \A i, j \in DOMAIN FinalRun :
               i < j => ~StrLess(GroupKey(FinalRun[j]), GroupKey(FinalRun[i]))
        /\ \A i, j, k \in DOMAIN FinalRun :
               (i < k /\ k < j /\ GroupKey(FinalRun[i]) = GroupKey(FinalRun[j]))
               => GroupKey(FinalRun[k]) = GroupKey(FinalRun[i])

\* C21, its case: a cascade of two levels has ended over chunk runs of which
\* one is sorted by hash but not by line and two hold records of the same
\* hash; the final run holds records of two hashes
C21_Witness ==
    /\ HasFinalRun
    /\ merge_level >= 2
    /\ \E c \in AllChunks : \E i, j \in DOMAIN c.lines :
           i < j /\ LineLess(c.lines[j], c.lines[i])
    /\ \E i, j \in DOMAIN FinalRun : GroupKey(FinalRun[i]) # GroupKey(FinalRun[j])
    /\ \E c, d \in AllChunks :
           /\ c # d /\ c.lines # <<>> /\ d.lines # <<>>
           /\ GroupKey(c.lines[1]) = GroupKey(d.lines[1])

\* C22: once stage 1 of the deletion has ended, every NormalizedKey that the
\* directory of the run held in more than one file has lines in at most one
\* file (the keep file), under whichever prefix the engine reported the key.
C22_StageAClearsOtherFiles ==
    (/\ config.deleteduplicates
     /\ pc \in {"stage_b", "write", "done"}
     /\ NoHashCollision(start, config))
    => \A k \in CorpusKeys(start, config) :
           Cardinality(FilesWith(start, k, config)) > 1
           => Cardinality(FilesWith(fs, k, config)) <= 1

\* the lines of content at the positions of K, in order
RECURSIVE Restrict(_, _, _)
Restrict(content, K, i) ==
    IF i > Len(content) THEN <<>>
    ELSE (IF i \in K THEN <<content[i]>> ELSE <<>>) \o Restrict(content, K, i + 1)
\* the positions stage 2 has to leave in a file: the header, the blank
\* lines, and each data line that no earlier data line matches in hash
FirstOccurrences(content, cfg) ==
    {i \in DOMAIN content :
        \/ i = 1
        \/ Strip(content[i]) = <<>>
        \/ \A j \in 2..(i - 1) :
               Strip(content[j]) = <<>>
               \/ LineHash(Strip(content[j]), cfg) # LineHash(Strip(content[i]), cfg)}

\* C23: the stage-2 step on a file leaves the header, every blank line and,
\* for every hash, the first data line of that hash, each as it was and in
\* the order of the file; it drops every later data line of a hash already
\* met; the header does not count as an occurrence of its hash; the other
\* files are not touched.
C23_StageBKeepsFirstOccurrences ==
    [][(pc = "stage_b" /\ stage_b_next' = stage_b_next + 1)
       => LET name == files[stage_b_next]
          IN /\ fs'[name] = Restrict(fs[name], FirstOccurrences(fs[name], config), 1)
             /\ \A other \in DOMAIN fs \ {name} : fs'[other] = fs[other]]_vars

\* C23, its case: stage 2 has dropped a line of a file that still holds its
\* header, a data line equal to the header and a blank line
C23_Witness ==
    /\ pc \in {"write", "done"}
    /\ config.deleteduplicates
    /\ \E name \in DOMAIN intra_file_deleted_counts :
           /\ intra_file_deleted_counts[name] > 0
           /\ Len(fs[name]) = 3
           /\ fs[name][1] = HeaderLine
           /\ \E i, j \in 2..3 : fs[name][i] = HeaderLine /\ fs[name][j] = <<>>

\* the engine of the current run is still computing the DuplicateEntries
EngineRunning == pc \in {"fast", "safe1", "safe2", "disk1", "disk2"}

\* C24: in a run with deletion enabled the input files are rewritten only
\* by stage 1 and stage 2, after the engine has emitted the DuplicateEntries;
\* stage 1 is followed by stage 1 or stage 2, stage 2 by stage 2 or by the
\* writing of the report, so that no stage-2 rewrite precedes a stage-1
\* rewrite; stage 2 begins when no stage-1 rewrite is due, and the report is
\* written when every file has gone through stage 2 (or, by SAFE, at the end
\* of a pass 1 that found no duplicated hash, in a run without any rewrite).
C24_DeletionOrder ==
    [][config.deleteduplicates =>
          /\ (fs' # fs => (pc \in {"stage_a", "stage_b"} /\ output_data' = output_data))
          /\ (pc' = "stage_a" => (pc = "stage_a" \/ (EngineRunning /\ pending = {})))
          /\ (pc' = "stage_b" /\ pc # "stage_b"
                  => /\ stage_a_queue' = <<>>
                     /\ (pc = "stage_a" \/ (EngineRunning /\ pending = {})))
          /\ (pc = "stage_a" => pc' \in {"stage_a", "stage_b"})
          /\ (pc = "stage_b" => (pc' \in {"stage_b", "write"} /\ stage_a_queue = <<>>))
          /\ (pc' = "write" => (pc = "stage_b" /\ stage_b_next' > Len(files)))
          /\ (report' # report
                  => (pc = "write" \/ (pc = "safe1" /\ pending = {} /\ pc' = "done")))
          /\ (pc = "write" => fs' = fs)]_vars

\* C24, its case: a run has ended in which stage 1 and stage 2 each rewrote
\* a file and the report was written
C24_Witness ==
    /\ pc = "done"
    /\ config.deleteduplicates
    /\ fs # start
    /\ report # <<>>
    /\ \E m \in DOMAIN inter_file_deleted_counts : inter_file_deleted_counts[m] > 0
    /\ \E n \in DOMAIN intra_file_deleted_counts : intra_file_deleted_counts[n] > 0

\* the position in s of the k-th d, 0 when s holds fewer than k
RECURSIVE KthDelimiter(_, _, _, _)
KthDelimiter(s, d, k, i) ==
    IF i > Len(s) THEN 0
    ELSE IF s[i] # d THEN KthDelimiter(s, d, k, i + 1)
    ELSE IF k = 1 THEN i
    ELSE KthDelimiter(s, d, k - 1, i + 1)
\* the first min(k, n) of the n fields of s, with the delimiters between them
FirstFields(s, d, k) ==
    LET p == KthDelimiter(s, d, k, 1)
    IN IF p = 0 THEN s ELSE SubSeq(s, 1, p - 1)
\* the number of fields of s
NumFields(s, d) == Cardinality({i \in DOMAIN s : s[i] = d}) + 1
\* texts put in the place of what follows the first k fields
Residues == {<<>>, <<100>>, <<SEMICOLON, SPACE, 100>>, <<SPACE, SPACE>>}
\* the data lines of the directory, as they stand in the files
RawLines(dir) == UNION {{dir[name][i] : i \in 2..Len(dir[name])} : name \in DOMAIN dir}

\* C25: for every data line R of the directory and the configured delimiter
\* D and field count K, normalize_line returns the first min(K, n) of the n
\* fields of the trimmed R with D between them: the whole trimmed R when
\* n <= K, and otherwise a key that stays the same whatever follows the K-th
\* delimiter.  The normalizer of the earlier script, called on trimmed
\* lines, does the same for D = ';' and K = 6.
C25_KeyIsFirstFields ==
    \A R \in RawLines(fs) :
        LET D == config.hash_delimiter
            K == config.hash_fields
            t == Strip(R)
            p == KthDelimiter(t, D, K, 1)
        IN /\ normalize_line(R, D, K) = FirstFields(t, D, K)
           /\ (NumFields(t, D) <= K => normalize_line(R, D, K) = t)
           /\ (p # 0 => \A x \in Residues :
                             normalize_line(SubSeq(t, 1, p) \o x, D, K)
                                 = normalize_line(R, D, K))
           /\ normalize_line_fixed(t) = FirstFields(t, SEMICOLON, HASH_FIELDS_FIXED)

\* C25, its case: FAST has hashed a directory that holds a line to trim, a
\* line of fewer than K fields and a line of more than K fields, with K > 1
C25_Witness ==
    /\ pc = "done"
    /\ config.hash_fields > 1
    /\ \E R \in RawLines(fs) : Strip(R) # R
    /\ \E R \in RawLines(fs) : NumFields(Strip(R), config.hash_delimiter) < config.hash_fields
    /\ \E R \in RawLines(fs) :
           /\ NumFields(Strip(R), config.hash_delimiter) > config.hash_fields
           /\ normalize_line(R, config.hash_delimiter, config.hash_fields) # Strip(R)

\* the temp paths with numbers up to MaxPathNumber
PathsUpTo(n) ==
    {ChunkPath(a, b) : a, b \in 0..n} \cup {MergedPath(a, b) : a, b \in 0..n}
\* different (FileId, chunk index) and (merge level, batch index) pairs give
\* different path texts, and no chunk path text is a merge output path text
PathNamesDiffer ==
    Cardinality({PathName(x) : x \in PathsUpTo(MaxPathNumber)})
        = Cardinality(PathsUpTo(MaxPathNumber))
\* the texts of the paths of the chunk files the worker of file_id writes
WorkerPathNames(file_id) ==
    LET chunk_files == process_and_sort_chunk_disk(
                           start[files[file_id + 1]], file_id, config, chunk_size_bytes)
    IN [c \in DOMAIN chunk_files |-> PathName(chunk_files[c].path)]

\* C26: in phase 1 of a DISK run a worker writes each of its paths once and
\* the workers of two files write no path in common; and the temp files
\* written so far (chunk files and merge outputs of every level) have
\* pairwise different path texts, so that no write of phase 1 or of the
\* cascade goes to a path written before.
C26_TempPathsDistinct ==
    /\ PathNamesDiffer
    /\ (strategy = "disk" /\ pc = "disk1")
           => LET names == [i \in 0..(Len(files) - 1) |-> WorkerPathNames(i)]
              IN \A i, j \in DOMAIN names :
                     \A c \in DOMAIN names[i], d \in DOMAIN names[j] :
                         names[i][c] = names[j][d] => (i = j /\ c = d)
    /\ strategy = "disk"
           => \A i, j \in DOMAIN all_temp_files :
                  i # j => PathName(all_temp_files[i]) # PathName(all_temp_files[j])

\* C26, its case: the cascade is at its second level or beyond, over chunk
\* files of two workers of which one wrote two chunks
C26_Witness ==
    /\ strategy = "disk"
    /\ pc = "disk2"
    /\ merge_level >= 2
    /\ \E i \in 0..(Len(files) - 1) : Len(WorkerPathNames(i)) >= 2
    /\ \E x, y \in Range(all_temp_files) :
           x[1] = "hashes" /\ y[1] = "hashes" /\ x[2] # y[2]
    /\ \E x, y \in Range(all_temp_files) :
           x[1] = "merged" /\ y[1] = "merged" /\ x[2] # y[2]

\* the file a step of stage 1 or stage 2 is about
RewrittenFile ==
    IF pc = "stage_a" THEN Head(stage_a_queue).file ELSE files[stage_b_next]

\* C27: when the rewrite of a file fails in stage 1 or stage 2, the .backup
\* of that file exists after the failure and the deletion goes on with the
\* next file; when a rewrite succeeds, the .backup of the file does not
\* exist afterwards.
C27_BackupAfterFailure ==
    [][(/\ pc \in {"stage_a", "stage_b"}
        /\ (stage_a_queue' # stage_a_queue \/ stage_b_next' # stage_b_next))
       => IF failed' # failed
          THEN /\ RewrittenFile \in DOMAIN backups'
               /\ pc' \in {"stage_a", "stage_b", "write"}
          ELSE fs' # fs => RewrittenFile \notin DOMAIN backups']_vars

\* the lines a rewrite of stage 1 or stage 2 is to leave in its file
FilteredContent ==
    IF pc = "stage_a"
    THEN delete_rows_from_file(fs[RewrittenFile], Head(stage_a_queue).lines_to_remove)
    ELSE IntraFileScan(fs[RewrittenFile], config).lines_to_keep

\* C28: after every step of a rewrite of stage 1 or stage 2, completed or
\* ended by a failure at any of its steps, the file holds all the lines it
\* had before the rewrite, or all the lines the rewrite is to leave, or its
\* .backup exists and holds all the lines the file had before the rewrite.
C28_ContentRecoverable ==
    [][(/\ pc \in {"stage_a", "stage_b"}
        /\ (stage_a_queue' # stage_a_queue \/ stage_b_next' # stage_b_next))
       => \/ fs'[RewrittenFile] = fs[RewrittenFile]
          \/ fs'[RewrittenFile] = FilteredContent
          \/ /\ RewrittenFile \in DOMAIN backups'
             /\ backups'[RewrittenFile] = fs[RewrittenFile]]_vars

\* C28, its case: a rewrite has failed while it replaced a file of three
\* lines or more, leaving it empty, and the .backup holds the lines the file
\* had when the run began
C28_Witness ==
    /\ pc = "done"
    /\ \E x \in failed : x.kind \in {"stage_a", "stage_b"}
    /\ \E name \in DOMAIN backups :
           /\ fs[name] = <<>>
           /\ Len(start[name]) >= 3
           /\ backups[name] = start[name]

\* C29: when deletion is disabled, whatever the engine and also when workers
\* fail, every input file holds the lines it held when the run began, no
\* input file is missing and no .backup of an input file exists.
C29_InputsUntouchedWithoutDeletion ==
    ~config.deleteduplicates =>
        /\ DOMAIN fs = DOMAIN start
        /\ fs = start
        /\ backups = EmptyDict

\* C29, its case: a run without deletion has ended after the worker of a
\* file failed, and it reported duplicates
C29_Witness ==
    /\ pc = "done"
    /\ ~config.deleteduplicates
    /\ failed # {}
    /\ output_data # EmptyDict
    /\ report # <<>>

\* the records of the run file at path, as the worker made them before it
\* formatted them
RecordsOf(path) ==
    SortByHash(ChunkRecords(
        ReadChunks(AfterHeader(fs[files[path[2] + 1]]), chunk_size_bytes)[path[3] + 1],
        path[2], config))

\* C30: every line a DISK worker has written into a run file is parsed by
\* phase 3 into the hash, the file id and the prefix of the record it was
\* written from, so that no record is skipped.
C30_RecordsReadBackUnchanged ==
    pc = "disk1" =>
        \A path \in DOMAIN temp_dir.entries :
            LET recs == RecordsOf(path)
                lines == temp_dir.entries[path]
            IN \A i \in 1..Len(lines) :
                   LET parsed == ParseRecord(lines[i])
                   IN /\ parsed.ok
                      /\ GroupKey(lines[i]) = recs[i].h
                      /\ parsed.fid = recs[i].fid
                      /\ parsed.prefix = recs[i].prefix

====
